---- MODULE Spec2Model ----
(***************************************************************************)
(* Model of the kotlin-index indexing engine: the file scanner             *)
(* (FileIndexer), the symbol extractor and reference scanner               *)
(* (SymbolIndexer), the module graph builder (ModuleIndexer) and the       *)
(* SQLite store (Database), driven by the CLI commands rebuild and update. *)
(*                                                                         *)
(* Every action is one whole handler; the store is one connection, and     *)
(* every indexing entry point ends with commit(), so the value of db after *)
(* an action is the committed store.                                       *)
(***************************************************************************)
EXTENDS FiniteSets, Integers, Sequences, TLC

\* ------------------------------------------------------------------ bounds
\* Clock readings and file modification times range over 1..MaxTime.
MaxTime == 2
\* AUTOINCREMENT counters are capped: an operation that would hand out an id
\* above the cap is not started.
MaxSymId == 6
MaxRefId == 6
MaxFileId == 3
MaxModuleId == 4
MaxDepId == 4
\* The tree is changed (a file written or removed) at most MaxChanges times
\* after the start.
MaxChanges == 1
MaxLines == 2
MaxNodes == 3
MaxInterfaces == 2
MaxEdges == 3

\* SQL NULL / Python None for text values, and for ids and timestamps
\* (row ids start at 1 and time.time() is positive, so 0 is never a value;
\* like None, 0.0 is false in "if indexed_at and ...").
NULL == "NULL"
NoId == 0

\* ------------------------------------------------------------ project tree
\* Paths are tuples of path segments below the project root.
PathA == <<"app", "A.kt">>
PathB == <<"lib", "api", "B.java">>
Paths == {PathA, PathB}

\* Path(file_path).name
FileName(p) == p[Len(p)]

\* Path(file_path).suffix
Suffix(p) ==
    CASE FileName(p) = "A.kt" -> ".kt"
      [] FileName(p) = "B.java" -> ".java"
      [] OTHER -> ""

\* FileIndexer.EXTENSIONS
EXTENSIONS == {".kt", ".java", ".xml", ".gradle", ".kts", ".properties"}

\* Directories that may hold build descriptors, and the descriptor file names.
ModuleDirs == {<<"app">>, <<"lib", "api">>}
DescriptorNames == {"build.gradle.kts", "build.gradle"}

\* --------------------------------------------------------------- contents
\* File contents are drawn from a small set. Each content has a line view
\* (read by the regex fallback and by the reference scanner) and a syntax
\* tree (walked by the grammar-based extractor).
\*   "foo"    class Foo : Base, Runnable { fun run() }
\*   "bar"    import of Foo; object Bar : Foo()  (Java: class Bar extends Foo)
\*   "deep"   class Deep whose body nests too deep for the recursive walk:
\*            visit_node raises RecursionError after Deep was inserted
\*   "binary" bytes that are not UTF-8: read_text raises
Contents == {"foo", "bar", "deep", "binary"}

Readable(c) == c # "binary"

Leaf(type, name, sig) ==
    [type |-> type, name |-> name, ctype |-> NULL, sig |-> sig,
     supers |-> <<>>, children |-> <<>>, bomb |-> FALSE]

\* A supertype of a class-like node: clause is the child of the declaration
\* it stands in ("superclass", "super_interfaces", "extends_interfaces";
\* "delegation_specifiers" in Kotlin); form is what the delegation
\* specifier holds in Kotlin ("user_type", "constructor_invocation",
\* "explicit_delegation") and "type" in Java; name is the type's simple
\* name, qualifier the first segment of a qualified reference (NULL when
\* the reference is not qualified), args whether type arguments follow.
SuperType(clause, form, qualifier, name, args) ==
    [clause |-> clause, form |-> form, qualifier |-> qualifier, name |-> name,
     args |-> args]

\* The syntax tree of a content in a language ("kotlin" or "java"). supers
\* lists the supertypes of a class-like node; bomb marks the node at which the recursive walk exceeds the
\* interpreter's recursion limit.
AST(c, lang) ==
    LET fn == IF lang = "kotlin" THEN "function_declaration" ELSE "method_declaration"
        cls(name, sup, kids) ==
            [type |-> "class_declaration", name |-> name, ctype |-> "class",
             sig |-> NULL, supers |-> sup, children |-> kids, bomb |-> FALSE]
    IN CASE c = "foo" ->
              [type |-> "source_file", name |-> NULL, ctype |-> NULL, sig |-> NULL,
               supers |-> <<>>, bomb |-> FALSE,
               children |-> <<
                 cls("Foo",
                     IF lang = "kotlin"
                     THEN << SuperType("delegation_specifiers", "user_type", NULL, "Base", FALSE),
                             SuperType("delegation_specifiers", "user_type", NULL, "Runnable", FALSE) >>
                     ELSE << SuperType("superclass", "type", NULL, "Base", FALSE),
                             SuperType("super_interfaces", "type", NULL, "Runnable", FALSE) >>,
                     << Leaf(fn, "run", "()") >>) >>]
         [] c = "bar" ->
              [type |-> "source_file", name |-> NULL, ctype |-> NULL, sig |-> NULL,
               supers |-> <<>>, bomb |-> FALSE,
               children |-> <<
                 IF lang = "kotlin"
                 THEN [type |-> "object_declaration", name |-> "Bar", ctype |-> NULL,
                       sig |-> NULL, bomb |-> FALSE, children |-> <<>>,
                       supers |-> << SuperType("delegation_specifiers",
                                                "constructor_invocation",
                                                NULL, "Foo", FALSE) >>]
                 ELSE cls("Bar", << SuperType("superclass", "type", NULL, "Foo", FALSE) >>,
                          <<>>) >>]
         [] c = "deep" ->
              [type |-> "source_file", name |-> NULL, ctype |-> NULL, sig |-> NULL,
               supers |-> <<>>, bomb |-> FALSE,
               children |-> <<
                 cls("Deep", <<>>,
                     << [type |-> "expression", name |-> NULL, ctype |-> NULL,
                         sig |-> NULL, supers |-> <<>>, children |-> <<>>,
                         bomb |-> TRUE],
                        Leaf(fn, "after", "()") >>) >>]
         [] OTHER ->
              [type |-> "source_file", name |-> NULL, ctype |-> NULL, sig |-> NULL,
               supers |-> <<>>, bomb |-> FALSE, children |-> <<>>]

\* The line view of a content: kind is what the line declares ("class",
\* "interface", "object", "enum", "fun") or "import", "comment", "code";
\* indent is the line's leading whitespace; params is the text
\* "(" params ")" of a declared function; head is what the stripped line
\* begins with ("//", "/*", "*", "import " or other "text"); comment tells
\* where the line lies ("line": a line comment, "open": the opening line of
\* a block comment, "inside": a later line of a block comment, "none":
\* outside comments); idents are the capitalised
\* identifiers on the line with the usage context the scanner's heuristic
\* gives them.
Lines(c, lang) ==
    CASE c = "foo" ->
           << [kind |-> "class", name |-> "Foo", params |-> NULL, indent |-> 0,
               head |-> "text", comment |-> "none",
               idents |-> << [name |-> "Foo", context |-> "reference"],
                             [name |-> "Base", context |-> "inheritance"],
                             [name |-> "Runnable", context |-> "reference"] >>],
              [kind |-> "fun", name |-> "run", params |-> "()", indent |-> 4,
               head |-> "text", comment |-> "none",
               idents |-> <<>>] >>
      [] c = "bar" ->
           << [kind |-> "import", name |-> NULL, params |-> NULL, indent |-> 0,
               head |-> "import ", comment |-> "none",
               idents |-> << [name |-> "Foo", context |-> "reference"] >>],
              [kind |-> IF lang = "kotlin" THEN "object" ELSE "class",
               name |-> "Bar", params |-> NULL, indent |-> 0,
               head |-> "text", comment |-> "none",
               idents |-> << [name |-> "Bar", context |-> "reference"],
                             [name |-> "Foo",
                              context |-> IF lang = "kotlin" THEN "call"
                                          ELSE "inheritance"] >>] >>
      [] c = "deep" ->
           << [kind |-> "class", name |-> "Deep", params |-> NULL, indent |-> 0,
               head |-> "text", comment |-> "none",
               idents |-> << [name |-> "Deep", context |-> "reference"] >>],
              [kind |-> "code", name |-> NULL, params |-> NULL, indent |-> 4,
               head |-> "text", comment |-> "none",
               idents |-> <<>>],
              [kind |-> "fun", name |-> "after", params |-> "()", indent |-> 4,
               head |-> "text", comment |-> "none",
               idents |-> <<>>] >>
      [] OTHER -> <<>>

\* ------------------------------------------------------------------ state
VARIABLES
    disk,           \* disk[p]: [exists, mtime, content] of the file at path p
    gradle,         \* gradle[dir]: the names of the build descriptors in directory dir
    now,            \* the reading of time.time()
    kotlin_parser,  \* SymbolIndexer.kotlin_parser is set (grammar available)
    java_parser,    \* SymbolIndexer.java_parser is set
    db,             \* the store: tables, full-text tables, AUTOINCREMENT counters
    last,           \* the last operation since the tree changed: its name,
                    \* argument and returned stats
    changes,        \* the number of changes made to the tree so far
    probe           \* the arguments and the result of a direct call of an
                    \* extractor, the reference scanner or a lookup

vars == <<disk, gradle, now, kotlin_parser, java_parser, db, last, changes, probe>>

\* No direct call is under way.
NoProbe == [call |-> "none"]

Absent == [exists |-> FALSE, mtime |-> NoId, content |-> NULL]

EmptyDb ==
    [files |-> {}, nextFileId |-> 1,
     symbols |-> {}, nextSymId |-> 1,
     inheritance |-> {},
     refs |-> {}, nextRefId |-> 1,
     modules |-> {}, nextModuleId |-> 1,
     module_deps |-> {}, nextDepId |-> 1,
     files_fts |-> {}, symbols_fts |-> {},
     last_indexed |-> NoId]

\* The ids handed out stay within the bounds of the model. A loop that has
\* exceeded them stops at once: the command's step is not taken.
WithinCaps(d) ==
    /\ d.nextSymId <= MaxSymId + 1
    /\ d.nextRefId <= MaxRefId + 1
    /\ d.nextFileId <= MaxFileId + 1
    /\ d.nextModuleId <= MaxModuleId + 1
    /\ d.nextDepId <= MaxDepId + 1

\* ------------------------------------------------------- Database: files
\* SELECT * FROM files WHERE path = ?   (the set holds at most one such row)
get_file_by_path(d, path) == {f \in d.files : f.path = path}

\* SELECT path FROM files
get_all_file_paths(d) == {f.path : f \in d.files}

\* INSERT OR REPLACE INTO files: a row with the path is deleted and a row
\* with the next AUTOINCREMENT id is inserted.
upsert_file_replace(d, path, name, extension, module, modified_at) ==
    [d EXCEPT !.files = {f \in @ : f.path # path} \cup
        {[id |-> d.nextFileId, path |-> path, name |-> name,
          extension |-> extension, module |-> module,
          modified_at |-> modified_at, indexed_at |-> now]},
      !.nextFileId = @ + 1]

\* INSERT INTO files ... ON CONFLICT(path) DO UPDATE SET ...: a row with the
\* path keeps its id and takes the new values; otherwise a row with the next
\* AUTOINCREMENT id is inserted. indexed_at is time.time().
upsert_file(d, path, name, extension, module, modified_at) ==
    IF \E f \in d.files : f.path = path
    THEN [d EXCEPT !.files =
            {IF f.path = path
             THEN [f EXCEPT !.name = name, !.extension = extension,
                            !.module = module, !.modified_at = modified_at,
                            !.indexed_at = now]
             ELSE f : f \in d.files}]
    ELSE [d EXCEPT !.files = @ \cup
            {[id |-> d.nextFileId, path |-> path, name |-> name,
              extension |-> extension, module |-> module,
              modified_at |-> modified_at, indexed_at |-> now]},
          !.nextFileId = @ + 1]

\* batch_size in delete_files_by_paths
batch_size == 500

\* paths[i:i + batch_size] for a 0-based i
Batch(paths, i) ==
    SubSeq(paths, i + 1, IF i + batch_size < Len(paths) THEN i + batch_size ELSE Len(paths))

Range(s) == {s[i] : i \in DOMAIN s}

\* for i in range(0, len(paths), batch_size): DELETE FROM files WHERE path IN batch
\* Only the files table is written: foreign keys are declared but SQLite
\* enforces none unless PRAGMA foreign_keys is set, and there is no cascade.
RECURSIVE DeleteBatches(_, _, _)
DeleteBatches(d, paths, i) ==
    IF i >= Len(paths) THEN d
    ELSE DeleteBatches(
            [d EXCEPT !.files = {f \in @ : f.path \notin Range(Batch(paths, i))}],
            paths, i + batch_size)

\* The deletion with ON DELETE CASCADE in force: the symbols and references
\* of the deleted files go with them.
delete_files_by_paths_cascade(d, paths) ==
    LET gone == {f.id : f \in {g \in d.files : g.path \in Range(paths)}}
    IN [d EXCEPT !.files = {f \in @ : f.id \notin gone},
                 !.symbols = {x \in @ : x.file_id \notin gone},
                 !.refs = {r \in @ : r.file_id \notin gone}]

delete_files_by_paths(d, paths) ==
    IF paths = <<>> THEN d ELSE DeleteBatches(d, paths, 0)

\* DELETE FROM files_fts; INSERT INTO files_fts SELECT name, path, module FROM files
\* (path is UNIQUE in files, so the selected rows are pairwise different)
rebuild_files_fts(d) ==
    [d EXCEPT !.files_fts =
        {[name |-> f.name, path |-> f.path, module |-> f.module] : f \in d.files}]

\* ----------------------------------------------------- Database: symbols
\* INSERT INTO symbols ...; returns cursor.lastrowid (the id is d.nextSymId)
upsert_symbol(d, name, symbol_type, file_id, signature, parent_id) ==
    [d EXCEPT !.symbols = @ \cup
        {[id |-> d.nextSymId, name |-> name, type |-> symbol_type,
          file_id |-> file_id, signature |-> signature,
          parent_symbol_id |-> parent_id]},
      !.nextSymId = @ + 1]

\* A delete_symbols_by_file that deletes nothing.
delete_symbols_by_file_keep(d, file_id) == d

\* DELETE FROM symbols WHERE file_id = ?
delete_symbols_by_file(d, file_id) ==
    [d EXCEPT !.symbols = {s \in @ : s.file_id # file_id}]

\* A variant of rebuild_symbols_fts without its DELETE FROM symbols_fts.
rebuild_symbols_fts_append(d) ==
    [d EXCEPT !.symbols_fts = @ \cup
        {[rowid |-> s.id, name |-> s.name,
          signature |-> IF s.signature = NULL THEN "" ELSE s.signature] :
            s \in d.symbols}]

\* DELETE FROM symbols_fts; INSERT INTO symbols_fts (rowid, name, signature)
\*   SELECT id, name, COALESCE(signature, '') FROM symbols
rebuild_symbols_fts(d) ==
    [d EXCEPT !.symbols_fts =
        {[rowid |-> s.id, name |-> s.name,
          signature |-> IF s.signature = NULL THEN "" ELSE s.signature] :
            s \in d.symbols}]

\* ------------------------------------------------- Database: inheritance
\* INSERT OR IGNORE INTO inheritance: UNIQUE(symbol_id, parent_name)
add_inheritance(d, symbol_id, parent_name, inheritance_type) ==
    IF \E i \in d.inheritance :
          i.symbol_id = symbol_id /\ i.parent_name = parent_name
    THEN d
    ELSE [d EXCEPT !.inheritance = @ \cup
            {[symbol_id |-> symbol_id, parent_name |-> parent_name,
              inheritance_type |-> inheritance_type]}]

\* DELETE FROM inheritance WHERE symbol_id IN
\*   (SELECT id FROM symbols WHERE file_id = ?)
delete_inheritance_by_file(d, file_id) ==
    [d EXCEPT !.inheritance =
        {i \in @ : i.symbol_id \notin
                     {s.id : s \in {t \in d.symbols : t.file_id = file_id}}}]

\* DELETE FROM inheritance
clear_inheritance(d) == [d EXCEPT !.inheritance = {}]

\* The segments of a type name between its dots, and the ASCII case folding
\* LIKE compares with.
Segments(name) == IF name = "Outer.T" THEN <<"Outer", "T">> ELSE <<name>>
Fold(segment) ==
    CASE segment = "T" -> "t"
      [] segment = "Outer" -> "outer"
      [] segment = "XT" -> "xt"
      [] segment = "A" -> "a"
      [] OTHER -> segment

\* value LIKE '%.' || name, for a name without "%" and "_": value ends with
\* a dot followed by name, compared without regard to ASCII case.
LikeDotSuffix(value, name) ==
    LET v == Segments(value)
        n == Segments(name)
    IN /\ Len(v) > Len(n)
       /\ \A i \in DOMAIN n : Fold(v[Len(v) - Len(n) + i]) = Fold(n[i])

\* A get_implementations whose WHERE is i.parent_name = ? alone.
ParentMatches_exact(value, parent_name) == value = parent_name

\* WHERE i.parent_name = ? OR i.parent_name LIKE ?  with (parent_name,
\* "%." + parent_name)
ParentMatches(value, parent_name) ==
    value = parent_name \/ LikeDotSuffix(value, parent_name)

\* FROM inheritance i JOIN symbols s ON i.symbol_id = s.id
\*                    JOIN files f ON s.file_id = f.id
\* The rows are given as the set of (symbol, inheritance_type) pairs; the
\* query's ORDER BY s.name and its repeated rows are left out.
JoinedEdges(d) ==
    UNION {{[symbol |-> x, parent_name |-> i.parent_name,
             inheritance_type |-> i.inheritance_type] :
               i \in {j \in d.inheritance : j.symbol_id = x.id}} :
             x \in {y \in d.symbols : \E f \in d.files : f.id = y.file_id}}

\* Database.get_implementations
get_implementations(d, parent_name) ==
    {[symbol |-> e.symbol, inheritance_type |-> e.inheritance_type] :
        e \in {j \in JoinedEdges(d) : ParentMatches(j.parent_name, parent_name)}}

\* Database.get_class_hierarchy: None (found is FALSE) when no class-like
\* symbol with a files row has the name; the symbol taken by LIMIT 1 is
\* the one with the lowest rowid.
get_class_hierarchy(d, class_name) ==
    LET rows == {x \in d.symbols :
                    /\ x.name = class_name
                    /\ x.type \in {"class", "interface", "object", "enum"}
                    /\ \E f \in d.files : f.id = x.file_id}
        symbol == CHOOSE x \in rows : \A y \in rows : x.id <= y.id
    IN IF rows = {} THEN [found |-> FALSE]
       ELSE [found |-> TRUE, symbol |-> symbol,
             parents |-> {[parent_name |-> i.parent_name,
                           inheritance_type |-> i.inheritance_type] :
                             i \in {j \in d.inheritance : j.symbol_id = symbol.id}},
             children |-> {[symbol |-> e.symbol,
                            inheritance_type |-> e.inheritance_type] :
                              e \in {j \in JoinedEdges(d) : j.parent_name = class_name}}]

\* -------------------------------------------------- Database: references
\* INSERT INTO symbol_references (symbol_name, file_id, line, context)
add_reference(d, symbol_name, file_id, line, context) ==
    [d EXCEPT !.refs = @ \cup
        {[id |-> d.nextRefId, symbol_name |-> symbol_name, file_id |-> file_id,
          line |-> line, context |-> context]},
      !.nextRefId = @ + 1]

\* DELETE FROM symbol_references WHERE file_id = ?
delete_references_by_file(d, file_id) ==
    [d EXCEPT !.refs = {r \in @ : r.file_id # file_id}]

\* DELETE FROM symbol_references
clear_references(d) == [d EXCEPT !.refs = {}]

\* INSERT INTO index_meta ... ON CONFLICT(key) DO UPDATE, for the one key the
\* program writes, "last_indexed"
set_meta(d, value) == [d EXCEPT !.last_indexed = value]

\* ----------------------------------------------------- Database: modules
\* INSERT INTO modules ... ON CONFLICT(name) DO UPDATE SET path, type
upsert_module(d, name, path, module_type) ==
    IF \E m \in d.modules : m.name = name
    THEN [d EXCEPT !.modules =
            {IF m.name = name THEN [m EXCEPT !.path = path, !.type = module_type]
             ELSE m : m \in d.modules}]
    ELSE [d EXCEPT !.modules = @ \cup
            {[id |-> d.nextModuleId, name |-> name, path |-> path,
              type |-> module_type]},
          !.nextModuleId = @ + 1]

\* SELECT * FROM modules WHERE name = ?
get_module_by_name(d, name) == {m \in d.modules : m.name = name}

\* DELETE FROM modules alone.
clear_modules_only(d) == [d EXCEPT !.modules = {}]

\* DELETE FROM modules; DELETE FROM module_deps
clear_modules(d) == [d EXCEPT !.modules = {}, !.module_deps = {}]

\* INSERT INTO module_deps on a table without the UNIQUE constraint: every
\* call stores a row.
add_module_dep_insert(d, module_id, dep_module_name, dep_type) ==
    [d EXCEPT !.module_deps = @ \cup
        {[id |-> d.nextDepId, module_id |-> module_id,
          dep_module_name |-> dep_module_name, dep_type |-> dep_type]},
      !.nextDepId = @ + 1]

\* INSERT OR IGNORE INTO module_deps: a row that conflicts with
\* UNIQUE(module_id, dep_module_name, dep_type) is not stored.
add_module_dep(d, module_id, dep_module_name, dep_type) ==
    IF \E r \in d.module_deps :
          /\ r.module_id = module_id
          /\ r.dep_module_name = dep_module_name
          /\ r.dep_type = dep_type
    THEN d
    ELSE [d EXCEPT !.module_deps = @ \cup
            {[id |-> d.nextDepId, module_id |-> module_id,
              dep_module_name |-> dep_module_name, dep_type |-> dep_type]},
          !.nextDepId = @ + 1]

\* The characters of a path segment, and the dotted string of a module
\* name: its segments joined with ".".
SegmentChars(segment) ==
    CASE segment = "lib" -> <<"l", "i", "b">>
      [] segment = "api" -> <<"a", "p", "i">>
      [] segment = "app" -> <<"a", "p", "p">>
      [] OTHER -> <<segment>>

RECURSIVE Dotted(_)
Dotted(name) ==
    IF name = <<>> THEN <<>>
    ELSE IF Len(name) = 1 THEN SegmentChars(name[1])
    ELSE SegmentChars(name[1]) \o <<".">> \o Dotted(Tail(name))

\* value LIKE '%' || pattern || '%' for a pattern without "%" and "_" and
\* lower-case text: pattern occurs somewhere in value.
LikeContains(value, pattern) ==
    LET v == Dotted(value)
        q == Dotted(pattern)
    IN \E i \in 0..(Len(v) - Len(q)) : SubSeq(v, i + 1, i + Len(q)) = q

\* get_module_deps: SELECT md.dep_module_name, md.dep_type FROM module_deps md
\* JOIN modules m ON md.module_id = m.id WHERE m.name = ?  (as a set; the
\* ORDER BY is left out)
get_module_deps(d, module_name) ==
    {[dep_module_name |-> md.dep_module_name, dep_type |-> md.dep_type] :
        md \in {r \in d.module_deps :
                  \E m \in d.modules : r.module_id = m.id /\ m.name = module_name}}

\* get_module_dependents: SELECT m.name as module_name, md.dep_type
\* FROM module_deps md JOIN modules m ON md.module_id = m.id
\* WHERE md.dep_module_name LIKE ?  with "%" + module_name + "%"
get_module_dependents(d, module_name) ==
    UNION {{[module_name |-> m.name, dep_type |-> md.dep_type] :
              m \in {n \in d.modules : n.id = md.module_id}} :
           md \in {r \in d.module_deps : LikeContains(r.dep_module_name, module_name)}}

\* ------------------------------------------- SymbolIndexer: extraction
Language(extension) == IF extension = ".kt" THEN "kotlin" ELSE "java"

\* The symbol type visit_node gives a node, NULL when the node declares
\* nothing (Kotlin: _detect_kotlin_class_type decides class/interface/enum).
SymbolTypeOf(node, lang) ==
    IF lang = "kotlin"
    THEN CASE node.type = "class_declaration" -> node.ctype
           [] node.type = "object_declaration" -> "object"
           [] node.type = "function_declaration" -> "function"
           [] node.type = "property_declaration" -> "property"
           [] OTHER -> NULL
    ELSE CASE node.type = "class_declaration" -> "class"
           [] node.type = "interface_declaration" -> "interface"
           [] node.type = "enum_declaration" -> "enum"
           [] node.type = "method_declaration" -> "function"
           [] node.type = "field_declaration" -> "property"
           [] OTHER -> NULL

\* The symbol types for which visit_node extracts supertypes.
ClassLike(lang) ==
    IF lang = "kotlin" THEN {"class", "interface", "object", "enum"}
    ELSE {"class", "interface", "enum"}

\* The type of the tree-sitter node of a Java type reference.
JavaTypeNode(t) ==
    IF t.args THEN "generic_type"
    ELSE IF t.qualifier # NULL THEN "scoped_type_identifier"
    ELSE "type_identifier"

\* _extract_java_type_name: the text of a type_identifier, or of the
\* type_identifier that is a child of a generic_type (the child of a
\* generic_type over a qualified name is a scoped_type_identifier); None
\* for every other node.
extract_java_type_name(t) ==
    CASE JavaTypeNode(t) = "type_identifier" -> t.name
      [] JavaTypeNode(t) = "generic_type" ->
            IF t.qualifier = NULL THEN t.name ELSE NULL
      [] OTHER -> NULL

\* _extract_type_name on a delegation_specifier: the first identifier child
\* of the user_type it holds, directly or in a constructor_invocation (the
\* identifiers of a qualified reference are its segments in order); None
\* for an explicit_delegation.
extract_type_name(t) ==
    CASE t.form \in {"user_type", "constructor_invocation"} ->
            IF t.qualifier # NULL THEN t.qualifier ELSE t.name
      [] OTHER -> NULL

\* _get_kotlin_supertypes: every delegation specifier is "extends".
\* _get_java_supertypes: superclass and extends_interfaces are "extends",
\* super_interfaces is "implements".
InheritanceKind(t, lang) ==
    IF lang = "java" /\ t.clause = "super_interfaces" THEN "implements" ELSE "extends"

\* _get_kotlin_supertypes / _get_java_supertypes: the pairs (type_name,
\* kind) of the supertypes for which a type name is extracted.
Supertypes(node, lang) ==
    LET type_name(t) == IF lang = "java" THEN extract_java_type_name(t)
                        ELSE extract_type_name(t)
        named(t) == type_name(t) # NULL
        found == SelectSeq(node.supers, named)
    IN [i \in DOMAIN found |->
          [name |-> type_name(found[i]), kind |-> InheritanceKind(found[i], lang)]]

\* for parent_name, inh_type in parents: self.db.add_inheritance(...)
RECURSIVE AddParents(_, _, _, _)
AddParents(d, symbol_id, parents, i) ==
    IF i > Len(parents) THEN d
    ELSE AddParents(add_inheritance(d, symbol_id, parents[i].name, parents[i].kind),
                    symbol_id, parents, i + 1)

\* A visit_node that hands its own parent_id down to the children.
CurrentParent_inherited(emit, symbol_id, parent_id) == parent_id

\* current_parent_id: the id of the symbol just stored, else the parent_id
\* the node was visited with.
CurrentParent(emit, symbol_id, parent_id) == IF emit THEN symbol_id ELSE parent_id

\* visit_node(node, parent_id) of _index_kotlin_with_tree_sitter and
\* _index_java_with_tree_sitter. The result is the store, the two counters
\* and whether the walk raised; rows inserted before the raise stay in the
\* store (nothing rolls back).
RECURSIVE VisitNode(_, _, _, _, _)
RECURSIVE VisitChildren(_, _, _, _, _, _)
VisitNode(d, file_id, node, parent_id, lang) ==
    IF ~WithinCaps(d)
    THEN [d |-> d, symbols |-> 0, inheritance |-> 0, raised |-> FALSE]
    ELSE IF node.bomb
    THEN [d |-> d, symbols |-> 0, inheritance |-> 0, raised |-> TRUE]
    ELSE
    LET symbol_type == SymbolTypeOf(node, lang)
        emit == symbol_type # NULL /\ node.name # NULL
        symbol_id == d.nextSymId
        d1 == IF emit
              THEN upsert_symbol(d, node.name, symbol_type, file_id, node.sig, parent_id)
              ELSE d
        parents == IF emit /\ symbol_type \in ClassLike(lang)
                   THEN Supertypes(node, lang) ELSE <<>>
        d2 == AddParents(d1, symbol_id, parents, 1)
        current_parent_id == CurrentParent(emit, symbol_id, parent_id)
        kids == VisitChildren(d2, file_id, node.children, 1, current_parent_id, lang)
    IN [d |-> kids.d,
        symbols |-> kids.symbols + (IF emit THEN 1 ELSE 0),
        inheritance |-> kids.inheritance + Len(parents),
        raised |-> kids.raised]

\* for child in node.children: visit_node(child, current_parent_id)
VisitChildren(d, file_id, children, i, parent_id, lang) ==
    IF i > Len(children)
    THEN [d |-> d, symbols |-> 0, inheritance |-> 0, raised |-> FALSE]
    ELSE LET r == VisitNode(d, file_id, children[i], parent_id, lang)
         IN IF r.raised THEN r
            ELSE LET rest == VisitChildren(r.d, file_id, children, i + 1, parent_id, lang)
                 IN [d |-> rest.d,
                     symbols |-> r.symbols + rest.symbols,
                     inheritance |-> r.inheritance + rest.inheritance,
                     raised |-> rest.raised]

\* _index_kotlin_with_tree_sitter / _index_java_with_tree_sitter
IndexWithTreeSitter(d, file_id, content, lang) ==
    VisitNode(d, file_id, AST(content, lang), NoId, lang)

\* indent of a function match in _index_kotlin_with_regex: the pattern
\* starts with ^, so match.start() is the start of a line, line_start is the
\* same position, and content[line_start:match.start()] is the empty string.
RegexIndent(line) == Len(<<>>)

\* The kinds of declaration KOTLIN_CLASS_PATTERN / JAVA_CLASS_PATTERN match;
\* both patterns are anchored at the start of a line and admit no leading
\* whitespace.
RegexClassKinds(lang) ==
    IF lang = "kotlin" THEN {"class", "interface", "object", "enum"}
    ELSE {"class", "interface", "enum"}

\* The first loop of the regex fallbacks: one symbol per class match.
RECURSIVE RegexClasses(_, _, _, _, _)
RegexClasses(d, file_id, lines, i, lang) ==
    IF i > Len(lines) \/ ~WithinCaps(d) THEN [d |-> d, symbols |-> 0]
    ELSE LET hit == lines[i].kind \in RegexClassKinds(lang) /\ lines[i].indent = 0
             d1 == IF hit
                   THEN upsert_symbol(d, lines[i].name, lines[i].kind, file_id, NULL, NoId)
                   ELSE d
             rest == RegexClasses(d1, file_id, lines, i + 1, lang)
         IN [d |-> rest.d, symbols |-> rest.symbols + (IF hit THEN 1 ELSE 0)]

\* The second loop of _index_kotlin_with_regex: one symbol per function
\* match whose computed indent is 0.
RECURSIVE RegexFunctions(_, _, _, _)
RegexFunctions(d, file_id, lines, i) ==
    IF i > Len(lines) \/ ~WithinCaps(d) THEN [d |-> d, symbols |-> 0]
    ELSE LET hit == lines[i].kind = "fun" /\ RegexIndent(lines[i]) = 0
             d1 == IF hit
                   THEN upsert_symbol(d, lines[i].name, "function", file_id,
                                      lines[i].params, NoId)
                   ELSE d
             rest == RegexFunctions(d1, file_id, lines, i + 1)
         IN [d |-> rest.d, symbols |-> rest.symbols + (IF hit THEN 1 ELSE 0)]

\* _index_kotlin_with_regex (classes, then functions) and
\* _index_java_with_regex (classes only); neither records inheritance.
IndexWithRegex(d, file_id, content, lang) ==
    LET c == RegexClasses(d, file_id, Lines(content, lang), 1, lang)
        f == IF lang = "kotlin"
             THEN RegexFunctions(c.d, file_id, Lines(content, lang), 1)
             ELSE [d |-> c.d, symbols |-> 0]
    IN [d |-> f.d, symbols |-> c.symbols + f.symbols, inheritance |-> 0,
        raised |-> FALSE]

\* Path(file_path).read_text(encoding="utf-8") succeeds
CanRead(path) == disk[path].exists /\ Readable(disk[path].content)

\* _index_kotlin_file / _index_java_file: a failed read returns (0, 0)
\* without raising; otherwise the grammar-based walk when the parser is set,
\* else the regex fallback.
IndexSourceFile(d, file_id, file_path, extension) ==
    LET lang == Language(extension)
        parser == IF lang = "kotlin" THEN kotlin_parser ELSE java_parser
    IN IF ~CanRead(file_path)
       THEN [d |-> d, symbols |-> 0, inheritance |-> 0, raised |-> FALSE]
       ELSE IF parser
            THEN IndexWithTreeSitter(d, file_id, disk[file_path].content, lang)
            ELSE IndexWithRegex(d, file_id, disk[file_path].content, lang)

\* SELECT DISTINCT name FROM symbols WHERE type IN ('class', 'interface', 'object', 'enum')
load_known_symbols(d) ==
    {s.name : s \in {t \in d.symbols : t.type \in {"class", "interface", "object", "enum"}}}

\* The inner loop of _index_references: the identifiers of one line.
RECURSIVE ScanIdents(_, _, _, _, _, _)
ScanIdents(d, file_id, line_num, idents, j, known_symbols) ==
    IF j > Len(idents) THEN [d |-> d, references |-> 0]
    ELSE LET hit == idents[j].name \in known_symbols
             d1 == IF hit
                   THEN add_reference(d, idents[j].name, file_id, line_num,
                                      idents[j].context)
                   ELSE d
             rest == ScanIdents(d1, file_id, line_num, idents, j + 1, known_symbols)
         IN [d |-> rest.d, references |-> rest.references + (IF hit THEN 1 ELSE 0)]

\* stripped.startswith("//") or stripped.startswith("*") or
\* stripped.startswith("import "): "/*" and other text begin with none of
\* the three.
SkippedLine(line) == line.head \in {"//", "*", "import "}

\* The outer loop of _index_references: the lines the test skips are passed
\* over, the identifiers of every other line are looked up.
RECURSIVE ScanLines(_, _, _, _, _)
ScanLines(d, file_id, lines, line_num, known_symbols) ==
    IF line_num > Len(lines) \/ ~WithinCaps(d) THEN [d |-> d, references |-> 0]
    ELSE IF SkippedLine(lines[line_num])
         THEN ScanLines(d, file_id, lines, line_num + 1, known_symbols)
         ELSE LET r == ScanIdents(d, file_id, line_num, lines[line_num].idents, 1,
                                  known_symbols)
                  rest == ScanLines(r.d, file_id, lines, line_num + 1, known_symbols)
              IN [d |-> rest.d, references |-> r.references + rest.references]

\* _index_references: a failed read returns 0.
index_references(d, file_id, file_path, extension, known_symbols) ==
    IF ~CanRead(file_path) THEN [d |-> d, references |-> 0]
    ELSE ScanLines(d, file_id, Lines(disk[file_path].content, Language(extension)), 1,
                   known_symbols)

\* The stats dicts the indexers start from.
NoFileStats == [added |-> 0, updated |-> 0, removed |-> 0, total |-> 0]
NoModuleStats == [modules |-> 0, dependencies |-> 0]
NoSymbolStats ==
    [files |-> 0, symbols |-> 0, inheritance |-> 0, references |-> 0,
     errors |-> 0, skipped |-> 0, log |-> <<>>]

\* --------------------------------------------------------- FileIndexer
\* All enumerations of a finite set.
Orders(S) ==
    {o \in [1..Cardinality(S) -> S] : \A i, j \in DOMAIN o : o[i] = o[j] => i = j}

\* A directory walk (os.walk, rglob) yields entries in the order the file
\* system lists them; the model fixes one such order, shorter paths first.
WalkOrder(S) ==
    CHOOSE o \in Orders(S) : \A i, j \in DOMAIN o : i < j => Len(o[i]) <= Len(o[j])

\* The rows of a SELECT without ORDER BY on a rowid table, by ascending id.
ById(rows) ==
    CHOOSE o \in Orders(rows) : \A i, j \in DOMAIN o : i < j => o[i].id < o[j].id

Filter(seq, unwanted) ==
    LET keep(x) == x \notin unwanted IN SelectSeq(seq, keep)

\* (current_path / "build.gradle.kts").exists()
HasKtsDescriptor(dir) == dir \in ModuleDirs /\ "build.gradle.kts" \in gradle[dir]

\* FileIndexer._detect_module. A module name is kept as the tuple of the
\* segments the code joins with ".". The deepest directory on the file's
\* path that holds build.gradle.kts wins; else the first three path
\* segments (the file name among them when the path is short).
detect_module(file_path) ==
    LET roots == {i \in 1..(Len(file_path) - 1) : HasKtsDescriptor(SubSeq(file_path, 1, i))}
        deepest == CHOOSE i \in roots : \A j \in roots : j <= i
        module_parts ==
            IF roots = {} THEN <<>>
            ELSE Filter(SubSeq(file_path, 1, deepest),
                        {"src", "main", "kotlin", "java", "res", "test", "androidTest"})
        first3 == SubSeq(file_path, 1, IF Len(file_path) < 3 THEN Len(file_path) ELSE 3)
        significant_parts == Filter(first3, {"src", "main", "kotlin", "java"})
    IN IF module_parts # <<>> THEN module_parts
       ELSE IF significant_parts # <<>> THEN significant_parts ELSE <<"root">>

\* FileIndexer._scan_files: no model path lies under an ignored directory.
scan_files == {p \in Paths : disk[p].exists /\ Suffix(p) \in EXTENSIONS}

\* A variant of FileUnchanged that compares with the stored indexed_at.
FileUnchanged_indexed_at(existing, modified_at) ==
    existing # {} /\ (\A f \in existing : f.indexed_at = modified_at)

\* A variant of FileUnchanged that also passes over a file whose mtime is
\* older than the stored one.
FileUnchanged_older(existing, modified_at) ==
    existing # {} /\ (\A f \in existing : f.modified_at >= modified_at)

\* "if existing and existing["modified_at"] == modified_at: continue"
FileUnchanged(existing, modified_at) ==
    existing # {} /\ (\A f \in existing : f.modified_at = modified_at)

\* The scan loop of FileIndexer.index_all over the files in the order found.
RECURSIVE ScanLoop(_, _, _, _)
ScanLoop(d, stats, found, i) ==
    IF i > Len(found) \/ ~WithinCaps(d) THEN [d |-> d, stats |-> stats]
    ELSE LET file_path == found[i]
             modified_at == disk[file_path].mtime
             existing == get_file_by_path(d, file_path)
             st1 == [stats EXCEPT !.total = @ + 1]
         IN IF FileUnchanged(existing, modified_at)
            THEN ScanLoop(d, st1, found, i + 1)
            ELSE ScanLoop(
                    upsert_file(d, file_path, FileName(file_path), Suffix(file_path),
                                detect_module(file_path), modified_at),
                    IF existing # {} THEN [st1 EXCEPT !.updated = @ + 1]
                    ELSE [st1 EXCEPT !.added = @ + 1],
                    found, i + 1)

\* A variant of RemovedPaths that takes the paths found instead of the missing.
RemovedPaths_found(existing_paths, found_paths) == existing_paths \cap found_paths

\* removed_paths = existing_paths - found_paths
RemovedPaths(existing_paths, found_paths) == existing_paths \ found_paths

\* FileIndexer.index_all: scan, delete the rows of the paths not found,
\* rebuild the files full-text table, commit.
FileIndexAll(d, found) ==
    LET existing_paths == get_all_file_paths(d)
        scanned == ScanLoop(d, NoFileStats, found, 1)
        removed_paths == RemovedPaths(existing_paths, Range(found))
        d1 == IF removed_paths # {}
              THEN delete_files_by_paths(scanned.d,
                                         CHOOSE o \in Orders(removed_paths) : TRUE)
              ELSE scanned.d
    IN [d |-> rebuild_files_fts(d1),
        stats |-> [scanned.stats EXCEPT !.removed = Cardinality(removed_paths)]]

\* FileIndexer.index_file: upsert one file's row, no full-text rebuild.
FileIndexFile(d, file_path) ==
    IF ~disk[file_path].exists \/ Suffix(file_path) \notin EXTENSIONS
    THEN [d |-> d, result |-> FALSE]
    ELSE [d |-> upsert_file(d, file_path, FileName(file_path), Suffix(file_path),
                            detect_module(file_path), disk[file_path].mtime),
          result |-> TRUE]

\* ------------------------------------------------- SymbolIndexer: runs
\* SELECT id, path, extension[, modified_at, indexed_at] FROM files
\*   WHERE extension IN ('.kt', '.java')
SourceFiles(d) == {f \in d.files : f.extension \in {".kt", ".java"}}

\* "Удаляем старые данные файла": the three deletes that open the
\* re-indexing of a file, in the order the code issues them.
DeleteOldData(d, file_id) ==
    delete_references_by_file(
        delete_inheritance_by_file(
            delete_symbols_by_file(d, file_id), file_id), file_id)

\* stats is the run's stats dict; its field log is not program state: it
\* records, per file id, which branch of the loop the file took.
Logged(stats, file_id, branch) == [stats EXCEPT !.log = @ @@ (file_id :> branch)]

\* One iteration of the first pass of SymbolIndexer.index_all: the try block
\* and its except clause.
FirstPassStep(acc, f) ==
    LET r == IndexSourceFile(DeleteOldData(acc.d, f.id), f.id, f.path, f.extension)
    IN IF r.raised
       THEN [d |-> r.d,
             stats |-> Logged([acc.stats EXCEPT !.errors = @ + 1], f.id, "error")]
       ELSE [d |-> r.d,
             stats |-> Logged([acc.stats EXCEPT !.symbols = @ + r.symbols,
                                                !.inheritance = @ + r.inheritance,
                                                !.files = @ + 1],
                              f.id, "indexed")]

RECURSIVE FirstPass(_, _, _)
FirstPass(acc, files, i) ==
    IF i > Len(files) \/ ~WithinCaps(acc.d) THEN acc
    ELSE FirstPass(FirstPassStep(acc, files[i]), files, i + 1)

\* The second pass of SymbolIndexer.index_all.
RECURSIVE SecondPass(_, _, _, _)
SecondPass(acc, files, i, known_symbols) ==
    IF i > Len(files) \/ ~WithinCaps(acc.d) THEN acc
    ELSE LET f == files[i]
             r == index_references(acc.d, f.id, f.path, f.extension, known_symbols)
         IN SecondPass([d |-> r.d,
                        stats |-> [acc.stats EXCEPT !.references = @ + r.references]],
                       files, i + 1, known_symbols)

\* SymbolIndexer.index_all
SymbolIndexAll(d, files) ==
    LET p1 == FirstPass([d |-> clear_references(clear_inheritance(d)),
                         stats |-> NoSymbolStats], files, 1)
        p2 == SecondPass(p1, files, 1, load_known_symbols(p1.d))
    IN [d |-> rebuild_symbols_fts(p2.d), stats |-> p2.stats]

\* A variant of Unchanged that compares with the stored indexed_at.
Unchanged_indexed_at(f, current_mtime) ==
    f.indexed_at # NoId /\ current_mtime <= f.indexed_at

\* A variant of Unchanged with a strict comparison.
Unchanged_strict(f, current_mtime) ==
    f.indexed_at # NoId /\ current_mtime < f.modified_at

\* "if indexed_at and current_mtime <= modified_at": the file is unchanged
Unchanged(f, current_mtime) == f.indexed_at # NoId /\ current_mtime <= f.modified_at

\* A variant of SkipMissing that deletes the derived rows of the missing file.
SkipMissing_purge(acc, f) ==
    [d |-> DeleteOldData(acc.d, f.id), stats |-> Logged(acc.stats, f.id, "missing")]

\* "except FileNotFoundError: continue": the file is passed over
SkipMissing(acc, f) == [d |-> acc.d, stats |-> Logged(acc.stats, f.id, "missing")]

\* stats["skipped"] += 1; continue
SkipUnchanged(acc, f) ==
    [d |-> acc.d,
     stats |-> Logged([acc.stats EXCEPT !.skipped = @ + 1], f.id, "skipped")]

\* An incremental run that loads the known symbols again after it has
\* extracted a file's symbols.
Reindex_reload(acc, f, known_symbols) ==
    LET current_mtime == disk[f.path].mtime
        d1 == DeleteOldData(acc.d, f.id)
        d2 == [d1 EXCEPT !.files =
                 {IF g.id = f.id
                  THEN [g EXCEPT !.modified_at = current_mtime, !.indexed_at = now]
                  ELSE g : g \in d1.files}]
        r == IndexSourceFile(d2, f.id, f.path, f.extension)
        refs == index_references(r.d, f.id, f.path, f.extension,
                                 load_known_symbols(r.d))
    IN IF r.raised
       THEN [d |-> r.d,
             stats |-> Logged([acc.stats EXCEPT !.errors = @ + 1], f.id, "error")]
       ELSE [d |-> refs.d,
             stats |-> Logged([acc.stats EXCEPT !.symbols = @ + r.symbols,
                                                !.inheritance = @ + r.inheritance,
                                                !.references = @ + refs.references,
                                                !.files = @ + 1],
                              f.id, "indexed")]

\* The try block of index_incremental and its except clause: delete the old
\* rows, store the new mtime, extract symbols, scan references.
Reindex(acc, f, known_symbols) ==
    LET current_mtime == disk[f.path].mtime
        d1 == DeleteOldData(acc.d, f.id)
        \* UPDATE files SET modified_at = ?, indexed_at = ? WHERE id = ?
        d2 == [d1 EXCEPT !.files =
                 {IF g.id = f.id
                  THEN [g EXCEPT !.modified_at = current_mtime, !.indexed_at = now]
                  ELSE g : g \in d1.files}]
        r == IndexSourceFile(d2, f.id, f.path, f.extension)
        refs == index_references(r.d, f.id, f.path, f.extension, known_symbols)
    IN IF r.raised
       THEN [d |-> r.d,
             stats |-> Logged([acc.stats EXCEPT !.errors = @ + 1], f.id, "error")]
       ELSE [d |-> refs.d,
             stats |-> Logged([acc.stats EXCEPT !.symbols = @ + r.symbols,
                                                !.inheritance = @ + r.inheritance,
                                                !.references = @ + refs.references,
                                                !.files = @ + 1],
                              f.id, "indexed")]

\* One iteration of the loop of index_incremental.
IncrementalStep(acc, f, known_symbols) ==
    IF ~disk[f.path].exists THEN SkipMissing(acc, f)
    ELSE IF Unchanged(f, disk[f.path].mtime) THEN SkipUnchanged(acc, f)
    ELSE Reindex(acc, f, known_symbols)

RECURSIVE IncrementalLoop(_, _, _, _)
IncrementalLoop(acc, files, i, known_symbols) ==
    IF i > Len(files) \/ ~WithinCaps(acc.d) THEN acc
    ELSE IncrementalLoop(IncrementalStep(acc, files[i], known_symbols),
                         files, i + 1, known_symbols)

\* SymbolIndexer.index_incremental
IndexIncremental(d, files) ==
    LET run == IncrementalLoop([d |-> d, stats |-> NoSymbolStats], files, 1,
                               load_known_symbols(d))
    IN [d |-> rebuild_symbols_fts(run.d), stats |-> run.stats]

\* SymbolIndexer.index_file: re-extract the symbols of one file; no
\* reference pass and no full-text rebuild.
IndexFile(d, file_path) ==
    LET file_info == get_file_by_path(d, file_path)
        f == CHOOSE g \in file_info : TRUE
        d1 == DeleteOldData(d, f.id)
        r == IndexSourceFile(d1, f.id, file_path, Suffix(file_path))
    IN IF file_info = {} THEN [d |-> d, symbols |-> 0, raised |-> FALSE]
       ELSE IF Suffix(file_path) \in {".kt", ".java"}
            THEN [d |-> r.d, symbols |-> r.symbols, raised |-> r.raised]
            ELSE [d |-> d1, symbols |-> 0, raised |-> FALSE]

\* ------------------------------------------------------- ModuleIndexer
\* The text of a build descriptor, as what the patterns of
\* _parse_dependencies and the sniffing of _detect_module_type find in it:
\* block lists the dependencies declared inside the modules { } block, top
\* those declared outside it, marker the Android plugin id it applies.
Descriptor(dir, name) ==
    IF dir = <<"app">>
    THEN [block |-> << [type |-> "implementation", name |-> <<"lib", "api">>] >>,
          top |-> << [type |-> "implementation", name |-> <<"lib", "api">>],
                     [type |-> "androidTestImplementation", name |-> <<"lib", "api">>] >>,
          marker |-> IF name = "build.gradle.kts" THEN "com.android.application"
                     ELSE "none"]
    ELSE [block |-> <<>>, top |-> <<>>, marker |-> "com.android.library"]

\* ModuleIndexer._path_to_module_name: the directory's segments (joined with
\* "." by the code), the empty tuple (None) for the root and for tooling
\* directories.
path_to_module_name(dir) ==
    IF dir = <<>> \/ dir[1] \in {".gradle", "buildSrc", "gradle"} THEN <<>> ELSE dir

\* ModuleIndexer._detect_module_type
detect_module_type(module_name, dir, name) ==
    LET n == Len(module_name)
    IN CASE n > 1 /\ module_name[n] = "api" -> "api"
         [] n > 1 /\ module_name[n] = "impl" -> "impl"
         [] n > 1 /\ module_name[n] = "stub" -> "stub"
         [] n > 1 /\ module_name[1] = "apps" -> "app"
         [] n > 1 /\ module_name[1] \in {"libs", "internallibs"} -> "lib"
         [] OTHER ->
              CASE Descriptor(dir, name).marker = "com.android.application" -> "app"
                [] Descriptor(dir, name).marker = "com.android.library" -> "lib"
                [] OTHER -> "module"

\* ModuleIndexer._normalize_module_name: returns its argument
normalize_module_name(name) == name

\* One loop of _parse_dependencies: append the matches not seen before.
RECURSIVE Dedup(_, _, _)
Dedup(deps, matches, i) ==
    IF i > Len(matches) THEN deps
    ELSE LET key == [name |-> normalize_module_name(matches[i].name),
                     type |-> matches[i].type]
         IN Dedup(IF key \in Range(deps) THEN deps ELSE Append(deps, key),
                  matches, i + 1)

\* ModuleIndexer._parse_dependencies: MODULES_DEP_PATTERN over the modules
\* block (it knows no androidTestImplementation), then PROJECTS_DEP_PATTERN
\* over the whole text, the block included.
parse_dependencies(dir, name) ==
    LET text == Descriptor(dir, name)
        known(m) == m.type \in {"api", "implementation", "testImplementation"}
        in_block == SelectSeq(text.block, known)
    IN Dedup(Dedup(<<>>, in_block, 1), text.block \o text.top, 1)

\* The first loop of ModuleIndexer.index_all: register the modules.
RECURSIVE RegisterModules(_, _, _, _)
RegisterModules(d, stats, gradle_files, i) ==
    IF i > Len(gradle_files) \/ ~WithinCaps(d) THEN [d |-> d, stats |-> stats]
    ELSE LET g == gradle_files[i]
             module_name == path_to_module_name(g.dir)
         IN IF module_name = <<>>
            THEN RegisterModules(d, stats, gradle_files, i + 1)
            ELSE RegisterModules(
                    upsert_module(d, module_name, g.dir,
                                  detect_module_type(module_name, g.dir, g.name)),
                    [stats EXCEPT !.modules = @ + 1], gradle_files, i + 1)

\* for dep_name, dep_type in deps: add_module_dep(module["id"], ...)
RECURSIVE AddDeps(_, _, _, _)
AddDeps(d, module_id, deps, i) ==
    IF i > Len(deps) THEN d
    ELSE AddDeps(add_module_dep(d, module_id, deps[i].name, deps[i].type),
                 module_id, deps, i + 1)

\* The second loop of ModuleIndexer.index_all: record the dependencies.
RECURSIVE RegisterDeps(_, _, _, _)
RegisterDeps(d, stats, gradle_files, i) ==
    IF i > Len(gradle_files) \/ ~WithinCaps(d) THEN [d |-> d, stats |-> stats]
    ELSE LET g == gradle_files[i]
             module_name == path_to_module_name(g.dir)
             module == get_module_by_name(d, module_name)
             deps == parse_dependencies(g.dir, g.name)
         IN IF module_name = <<>> \/ module = {}
            THEN RegisterDeps(d, stats, gradle_files, i + 1)
            ELSE RegisterDeps(
                    AddDeps(d, (CHOOSE m \in module : TRUE).id, deps, 1),
                    [stats EXCEPT !.dependencies = @ + Len(deps)],
                    gradle_files, i + 1)

\* The directories holding a descriptor with a given file name.
GradleDirs(name) == {dir \in ModuleDirs : name \in gradle[dir]}

\* rglob("build.gradle.kts") extended by rglob("build.gradle")
find_gradle_files ==
    LET kts == WalkOrder(GradleDirs("build.gradle.kts"))
        groovy == WalkOrder(GradleDirs("build.gradle"))
    IN [i \in DOMAIN kts |-> [dir |-> kts[i], name |-> "build.gradle.kts"]]
       \o [i \in DOMAIN groovy |-> [dir |-> groovy[i], name |-> "build.gradle"]]

\* ModuleIndexer.index_all: gradle_files lists the build.gradle.kts files,
\* then the build.gradle files.
ModuleIndexAll(d, gradle_files) ==
    LET p1 == RegisterModules(clear_modules(d), NoModuleStats, gradle_files, 1)
    IN RegisterDeps(p1.d, p1.stats, gradle_files, 1)

\* ---------------------------------------- SymbolIndexer: construction
\* What the installation offers for a language: the grammar package is
\* "missing" (its import raises ImportError), it imports but building the
\* parser "fails" (Parser(Language(...)) raises), or it is "ok".
GrammarStates == {"missing", "fails", "ok"}

\* The except clause of _init_kotlin_parser / _init_java_parser prints to
\* sys.stderr, and the module does not import sys: evaluating the argument
\* raises NameError, which leaves the handler and the constructor.
HandlerRaises == TRUE

\* _init_kotlin_parser / _init_java_parser. bound: the names Language and
\* Parser are bound in the module; when they are not, the try body raises
\* NameError, which the except clause catches like any other exception.
InitParser(grammar, bound) ==
    LET built == bound /\ grammar = "ok"
    IN [parser |-> built, raised |-> ~built /\ HandlerRaises]

\* The import block of the module followed by SymbolIndexer.__init__.
\* "from tree_sitter import Language, Parser" stands in the try block of
\* the Kotlin grammar, after its import: the names are bound only when
\* that import succeeded.
Construct(kotlin, java) ==
    LET KOTLIN_AVAILABLE == kotlin # "missing"
        JAVA_AVAILABLE == java # "missing"
        bound == KOTLIN_AVAILABLE
        none == [parser |-> FALSE, raised |-> FALSE]
        k == IF KOTLIN_AVAILABLE THEN InitParser(kotlin, bound) ELSE none
        j == IF ~k.raised /\ JAVA_AVAILABLE THEN InitParser(java, bound) ELSE none
    IN [raised |-> k.raised \/ j.raised,
        kotlin_parser |-> k.parser, java_parser |-> j.parser]

\* The extractors whose construction returned.
Constructions ==
    {c \in {Construct(k, j) : k \in GrammarStates, j \in GrammarStates} : ~c.raised}

\* -------------------------------------------------------------- actions

\* The record of the last operation since the tree last changed: op and arg
\* name it and the stats are what the indexers returned. A change of the
\* tree is recorded as "env".
Record(op, arg, file_stats, module_stats, symbol_stats) ==
    [op |-> op, arg |-> arg, file_stats |-> file_stats,
     module_stats |-> module_stats, symbol_stats |-> symbol_stats]

EnvRecord == Record("env", NULL, NoFileStats, NoModuleStats, NoSymbolStats)

\* A file is written (created or overwritten) with some content; its mtime is
\* any time (touch, cp -p and version control set mtimes at will).
WriteFile(p, c, t) ==
    /\ changes < MaxChanges
    /\ disk[p] # [exists |-> TRUE, mtime |-> t, content |-> c]
    /\ changes' = changes + 1
    /\ disk' = [disk EXCEPT ![p] = [exists |-> TRUE, mtime |-> t, content |-> c]]
    /\ last' = EnvRecord
    /\ UNCHANGED <<gradle, now, kotlin_parser, java_parser, db, probe>>

\* A file is removed from the tree.
DeleteFile(p) ==
    /\ changes < MaxChanges
    /\ disk[p].exists
    /\ changes' = changes + 1
    /\ disk' = [disk EXCEPT ![p] = Absent]
    /\ last' = EnvRecord
    /\ UNCHANGED <<gradle, now, kotlin_parser, java_parser, db, probe>>

\* The clock advances.
Tick ==
    /\ now < MaxTime
    /\ now' = now + 1
    /\ UNCHANGED <<disk, gradle, kotlin_parser, java_parser, db, last, changes, probe>>

\* cli.rebuild(index_type): the indexers the type selects, in the order
\* files, modules, symbols; then set_meta("last_indexed") and commit.
Rebuild(index_type) ==
    LET fi == IF index_type \in {"all", "files"}
              THEN FileIndexAll(db, WalkOrder(scan_files))
              ELSE [d |-> db, stats |-> NoFileStats]
        mi == IF index_type \in {"all", "modules"}
              THEN ModuleIndexAll(fi.d, find_gradle_files)
              ELSE [d |-> fi.d, stats |-> NoModuleStats]
        si == IF index_type \in {"all", "symbols"}
              THEN SymbolIndexAll(mi.d, ById(SourceFiles(mi.d)))
              ELSE [d |-> mi.d, stats |-> NoSymbolStats]
        d == set_meta(si.d, now)
    IN /\ WithinCaps(fi.d)
       /\ WithinCaps(mi.d)
       /\ WithinCaps(d)
       /\ db' = d
       /\ last' = Record("rebuild", index_type, fi.stats, mi.stats, si.stats)
       /\ UNCHANGED <<disk, gradle, now, kotlin_parser, java_parser, changes, probe>>

\* cli.update(): index_incremental, then set_meta("last_indexed") and commit.
Update ==
    LET run == IndexIncremental(db, ById(SourceFiles(db)))
        d == set_meta(run.d, now)
    IN /\ WithinCaps(d)
       /\ db' = d
       /\ last' = Record("update", NULL, NoFileStats, NoModuleStats, run.stats)
       /\ UNCHANGED <<disk, gradle, now, kotlin_parser, java_parser, changes, probe>>

\* SymbolIndexer.index_file(file_path). When the walk raises, the exception
\* leaves index_file before its commit; the connection keeps the statements
\* already executed.
IndexOneFile(p) ==
    LET run == IndexFile(db, p)
    IN /\ WithinCaps(run.d)
       /\ db' = run.d
       /\ last' = Record("index_file", p, NoFileStats, NoModuleStats,
                         [NoSymbolStats EXCEPT !.symbols = run.symbols,
                                               !.errors = IF run.raised THEN 1 ELSE 0])
       /\ UNCHANGED <<disk, gradle, now, kotlin_parser, java_parser, changes, probe>>

\* FileIndexer.index_file(file_path)
ScanOneFile(p) ==
    LET run == FileIndexFile(db, p)
    IN /\ WithinCaps(run.d)
       /\ db' = run.d
       /\ last' = Record("scan_file", p, NoFileStats, NoModuleStats, NoSymbolStats)
       /\ UNCHANGED <<disk, gradle, now, kotlin_parser, java_parser, changes, probe>>

\* The build descriptors of the tree: app/build.gradle.kts and
\* lib/api/build.gradle.
InitGradle ==
    [dir \in ModuleDirs |->
        IF dir = <<"app">> THEN {"build.gradle.kts"} ELSE {"build.gradle"}]

\* The trees at the start: each file is absent or was written at time 1.
InitTrees == [Paths -> {Absent} \cup [exists : {TRUE}, mtime : {1}, content : Contents]]

\* A fresh store (Database.connect on a new file) over some tree; each
\* grammar package is installed or not.
Init ==
    /\ disk \in InitTrees
    /\ gradle = InitGradle
    /\ now = 1
    /\ \E c \in Constructions : /\ kotlin_parser = c.kotlin_parser
                                /\ java_parser = c.java_parser
    /\ db = EmptyDb
    /\ changes = 0
    /\ last = EnvRecord
    /\ probe = NoProbe

TreeChange ==
    \/ \E p \in Paths, c \in Contents, t \in 1..MaxTime : WriteFile(p, c, t)
    \/ \E p \in Paths : DeleteFile(p)

\* The commands "rebuild --type files", "rebuild --type symbols" and
\* "update" over a changing tree.
Next ==
    \/ TreeChange
    \/ Tick
    \/ \E index_type \in {"files", "symbols"} : Rebuild(index_type)
    \/ Update

Spec == Init /\ [][Next]_vars

\* The command "rebuild" (all index types, or modules alone) over a
\* changing tree.
NextFull ==
    \/ TreeChange
    \/ Tick
    \/ \E index_type \in {"all", "modules"} : Rebuild(index_type)

SpecFull == Init /\ [][NextFull]_vars

\* One source file, app/A.kt, driven through every entry point, the
\* single-file ones included; lib/api/B.java is never there.
InitFile == Init /\ disk[PathB] = Absent

NextFile ==
    \/ \E c \in Contents, t \in 1..MaxTime : WriteFile(PathA, c, t)
    \/ DeleteFile(PathA)
    \/ Tick
    \/ \E index_type \in {"files", "symbols"} : Rebuild(index_type)
    \/ Update
    \/ IndexOneFile(PathA)
    \/ ScanOneFile(PathA)

SpecFile == InitFile /\ [][NextFile]_vars

\* A build descriptor is added to a module directory.
WriteDescriptor(dir, name) ==
    /\ changes < MaxChanges
    /\ name \notin gradle[dir]
    /\ changes' = changes + 1
    /\ gradle' = [gradle EXCEPT ![dir] = @ \cup {name}]
    /\ last' = EnvRecord
    /\ UNCHANGED <<disk, now, kotlin_parser, java_parser, db, probe>>

\* A build descriptor is removed.
DeleteDescriptor(dir, name) ==
    /\ changes < MaxChanges
    /\ name \in gradle[dir]
    /\ changes' = changes + 1
    /\ gradle' = [gradle EXCEPT ![dir] = @ \ {name}]
    /\ last' = EnvRecord
    /\ UNCHANGED <<disk, now, kotlin_parser, java_parser, db, probe>>

\* A fresh store over a tree of build descriptors: each module directory
\* holds build.gradle.kts, build.gradle, both or neither.
InitModules ==
    /\ disk \in InitTrees
    /\ disk[PathB] = Absent
    /\ disk[PathA].content \in {NULL, "foo"}
    /\ gradle \in [ModuleDirs -> SUBSET DescriptorNames]
    /\ now = 1
    /\ kotlin_parser = TRUE
    /\ java_parser = TRUE
    /\ db = EmptyDb
    /\ changes = 0
    /\ last = EnvRecord
    /\ probe = NoProbe

\* The command "rebuild --type modules" (and the other scoped rebuilds)
\* over a tree whose build descriptors change.
NextModules ==
    \/ \E dir \in ModuleDirs, name \in DescriptorNames : WriteDescriptor(dir, name)
    \/ \E dir \in ModuleDirs, name \in DescriptorNames : DeleteDescriptor(dir, name)
    \/ DeleteFile(PathA)
    \/ \E index_type \in {"files", "modules", "symbols"} : Rebuild(index_type)

SpecModules == InitModules /\ [][NextModules]_vars

\* The file scan and the symbol run over trees whose files carry any mtime
\* at the start (a checkout or cp -p sets mtimes ahead of or behind the
\* clock), so that one change can move a stored mtime back.
InitMtime ==
    /\ disk \in [Paths -> {Absent} \cup [exists : {TRUE}, mtime : 1..MaxTime,
                                         content : {"foo", "bar"}]]
    /\ gradle = InitGradle
    /\ now = 1
    /\ kotlin_parser = TRUE
    /\ java_parser = TRUE
    /\ db = EmptyDb
    /\ changes = 0
    /\ last = EnvRecord
    /\ probe = NoProbe

NextMtime ==
    \/ TreeChange
    \/ Tick
    \/ \E index_type \in {"files", "symbols"} : Rebuild(index_type)

SpecMtime == InitMtime /\ [][NextMtime]_vars

\* An indexed file is edited: both its content and its mtime change. probe
\* remembers which path was edited.
ChangeFile(p, c, t) ==
    /\ changes < MaxChanges
    /\ disk[p].exists
    /\ get_file_by_path(db, p) # {}
    /\ c # disk[p].content
    /\ t # disk[p].mtime
    /\ changes' = changes + 1
    /\ disk' = [disk EXCEPT ![p] = [exists |-> TRUE, mtime |-> t, content |-> c]]
    /\ last' = EnvRecord
    /\ probe' = [call |-> "change", path |-> p]
    /\ UNCHANGED <<gradle, now, kotlin_parser, java_parser, db>>

\* The commands "rebuild --type files", "rebuild --type symbols" and
\* "update" before and after one edit of an indexed file.
NextChange ==
    \/ \E p \in Paths, c \in Contents, t \in 1..MaxTime : ChangeFile(p, c, t)
    \/ Tick
    \/ \E index_type \in {"files", "symbols"} : Rebuild(index_type)
    \/ Update

SpecChange == Init /\ [][NextChange]_vars

\* The construction of the extractor in an installation, then the
\* commands that use it. probe holds what the installation offers and,
\* after the construction, whether the constructor raised.
InitConstruct ==
    /\ disk \in InitTrees
    /\ gradle = InitGradle
    /\ now = 1
    /\ kotlin_parser = FALSE
    /\ java_parser = FALSE
    /\ db = EmptyDb
    /\ changes = 0
    /\ last = EnvRecord
    /\ \E k \in GrammarStates, j \in GrammarStates :
          probe = [call |-> "import", kotlin |-> k, java |-> j, raised |-> FALSE]

\* SymbolIndexer(db, root)
ConstructCall ==
    /\ probe.call = "import"
    /\ LET c == Construct(probe.kotlin, probe.java)
       IN /\ kotlin_parser' = c.kotlin_parser
          /\ java_parser' = c.java_parser
          /\ probe' = [probe EXCEPT !.call = "construct", !.raised = c.raised]
    /\ UNCHANGED <<disk, gradle, now, db, last, changes>>

\* A command runs its indexers only when the constructors returned.
NextConstruct ==
    \/ ConstructCall
    \/ /\ probe.call = "construct"
       /\ ~probe.raised
       /\ \E index_type \in {"files", "symbols"} : Rebuild(index_type)

SpecConstruct == InitConstruct /\ [][NextConstruct]_vars

\* ------------------------------------------------ the steps of a full run
\* "rebuild" with index type "all", statement by statement. probe holds the
\* position in the command (pc), the rows selected by the symbol run
\* (files), the loop index (i), self.known_symbols, and committed, the
\* store as of the last commit; visited and scanned are not program
\* state: they record the ids of the files the first and the second pass
\* have handled.
InitRun ==
    /\ disk \in InitTrees
    /\ gradle = InitGradle
    /\ now = 1
    /\ \E c \in Constructions : /\ kotlin_parser = c.kotlin_parser
                                /\ java_parser = c.java_parser
    /\ db = EmptyDb
    /\ changes = 0
    /\ last = EnvRecord
    /\ probe = [call |-> "rebuild", pc |-> "files", files |-> <<>>, i |-> 1,
                known_symbols |-> {}, committed |-> EmptyDb,
                visited |-> {}, scanned |-> {}]

RunStep(pc) ==
    /\ probe.call = "rebuild"
    /\ probe.pc = pc
    /\ UNCHANGED <<disk, gradle, now, kotlin_parser, java_parser, last, changes>>

\* file_indexer.index_all(), which ends with a commit
RunFiles ==
    /\ RunStep("files")
    /\ db' = FileIndexAll(db, WalkOrder(scan_files)).d
    /\ probe' = [probe EXCEPT !.pc = "modules", !.committed = db']

\* module_indexer.index_all(), which ends with a commit
RunModules ==
    /\ RunStep("modules")
    /\ db' = ModuleIndexAll(db, find_gradle_files).d
    /\ probe' = [probe EXCEPT !.pc = "select", !.committed = db']

\* The head of symbol_indexer.index_all(): clear_inheritance,
\* clear_references, and the SELECT of the source files.
RunSelect ==
    /\ RunStep("select")
    /\ db' = clear_references(clear_inheritance(db))
    /\ probe' = [probe EXCEPT !.pc = "first_pass", !.i = 1,
                              !.files = ById(SourceFiles(db))]

\* A first pass that ends after its first file.
FirstPassDone_first(files, i) == i > Len(files) \/ i > 1

\* The first for loop over files is exhausted.
FirstPassDone(files, i) == i > Len(files)

\* One iteration of the first pass.
RunFirstPass ==
    /\ RunStep("first_pass")
    /\ ~FirstPassDone(probe.files, probe.i)
    /\ db' = FirstPassStep([d |-> db, stats |-> NoSymbolStats], probe.files[probe.i]).d
    /\ probe' = [probe EXCEPT !.i = @ + 1,
                              !.visited = @ \cup {probe.files[probe.i].id}]

\* self._load_known_symbols() between the passes
RunLoadKnown ==
    /\ RunStep("first_pass")
    /\ FirstPassDone(probe.files, probe.i)
    /\ db' = db
    /\ probe' = [probe EXCEPT !.pc = "second_pass", !.i = 1,
                              !.known_symbols = load_known_symbols(db)]

\* One iteration of the second pass.
RunSecondPass ==
    /\ RunStep("second_pass")
    /\ probe.i <= Len(probe.files)
    /\ LET f == probe.files[probe.i]
       IN /\ db' = index_references(db, f.id, f.path, f.extension,
                                    probe.known_symbols).d
          /\ probe' = [probe EXCEPT !.i = @ + 1, !.scanned = @ \cup {f.id}]

\* self.db.rebuild_symbols_fts(); self.db.commit()
RunFts ==
    /\ RunStep("second_pass")
    /\ probe.i > Len(probe.files)
    /\ db' = rebuild_symbols_fts(db)
    /\ probe' = [probe EXCEPT !.pc = "meta", !.committed = db']

\* db.set_meta("last_indexed", ...)
RunMeta ==
    /\ RunStep("meta")
    /\ db' = set_meta(db, now)
    /\ probe' = [probe EXCEPT !.pc = "commit"]

\* db.commit(), the last statement of the command
RunCommit ==
    /\ RunStep("commit")
    /\ db' = db
    /\ probe' = [probe EXCEPT !.pc = "done", !.committed = db]

NextRun ==
    \/ RunFiles
    \/ RunModules
    \/ RunSelect
    \/ RunFirstPass
    \/ RunLoadKnown
    \/ RunSecondPass
    \/ RunFts
    \/ RunMeta
    \/ RunCommit

SpecRun == InitRun /\ [][NextRun]_vars

\* --------------------------------------------------------- direct calls
\* The rest of the state while one function is called directly on a fresh
\* store: an empty tree, both grammar packages installed.
Bench ==
    /\ disk = [p \in Paths |-> Absent]
    /\ gradle = InitGradle
    /\ now = 1
    /\ kotlin_parser = TRUE
    /\ java_parser = TRUE
    /\ changes = 0
    /\ last = EnvRecord

BenchUnchanged == UNCHANGED <<disk, gradle, now, kotlin_parser, java_parser, last, changes>>

\* The lines handed to the reference scanner: a line comment, the opening
\* line of a block comment, a line inside a block comment with and without
\* a leading "*", an import statement, a line of code; each carries one
\* capitalised identifier.
ScanNames == {"Foo", "Bar"}
LineShapes ==
    {[head |-> "//", comment |-> "line"], [head |-> "/*", comment |-> "open"],
     [head |-> "*", comment |-> "inside"], [head |-> "text", comment |-> "inside"],
     [head |-> "import ", comment |-> "none"], [head |-> "text", comment |-> "none"]}
ScanLine(shape, name) ==
    [kind |-> IF shape.head = "import " THEN "import" ELSE "code",
     name |-> NULL, params |-> NULL, indent |-> 0,
     head |-> shape.head, comment |-> shape.comment,
     idents |-> << [name |-> name, context |-> "reference"] >>]
ScanInputs ==
    UNION {[1..n -> {ScanLine(sh, nm) : sh \in LineShapes, nm \in ScanNames}] :
             n \in 0..MaxLines}

InitScan ==
    /\ Bench
    /\ db = EmptyDb
    /\ probe \in [call : {"index_references"}, lines : ScanInputs,
                  known_symbols : SUBSET ScanNames, done : {FALSE},
                  references : {0}]

\* _index_references on the content of a file with id 1, the class-like
\* symbol names loaded before.
ScanCall ==
    /\ probe.call = "index_references"
    /\ ~probe.done
    /\ LET r == ScanLines(db, 1, probe.lines, 1, probe.known_symbols)
       IN /\ WithinCaps(r.d)
          /\ db' = r.d
          /\ probe' = [probe EXCEPT !.done = TRUE, !.references = r.references]
    /\ BenchUnchanged

SpecScan == InitScan /\ [][ScanCall]_vars

\* The syntax trees handed to visit_node: below the root, up to MaxNodes
\* nodes, each a class declaration, a function or method declaration, a
\* declaration in which no identifier is found (a destructuring property,
\* a field whose declarator is missing) or a node that declares nothing
\* (a class body).
NodeKinds(lang) ==
    {[type |-> "class_declaration", name |-> "Foo", sig |-> NULL],
     [type |-> IF lang = "kotlin" THEN "function_declaration" ELSE "method_declaration",
      name |-> "run", sig |-> "()"],
     [type |-> IF lang = "kotlin" THEN "property_declaration" ELSE "field_declaration",
      name |-> NULL, sig |-> NULL],
     [type |-> "class_body", name |-> NULL, sig |-> NULL]}

TreeNode(kind, children) ==
    [type |-> kind.type, name |-> kind.name, ctype |-> "class", sig |-> kind.sig,
     supers |-> <<>>, children |-> children, bomb |-> FALSE]

\* The sequences of trees with n nodes in all.
RECURSIVE Forests(_, _)
Forests(n, lang) ==
    IF n = 0 THEN {<<>>}
    ELSE UNION {{<<TreeNode(kind, kids)>> \o rest :
                    kind \in NodeKinds(lang), kids \in Forests(k - 1, lang),
                    rest \in Forests(n - k, lang)} : k \in 1..n}

SourceTrees(lang) ==
    {[type |-> "source_file", name |-> NULL, ctype |-> NULL, sig |-> NULL,
      supers |-> <<>>, children |-> f, bomb |-> FALSE] :
        f \in UNION {Forests(n, lang) : n \in 0..MaxNodes}}

\* The supertype lists of a class-like declaration: the i-th supertype has
\* the i-th name and stands in the clause clauses[i]; its reference is
\* simple or qualified, with or without type arguments, in any of forms.
SuperNames == <<"Base", "Runnable", "Closeable", "Comparable", "Iterable">>
SuperLists(clauses, forms) ==
    LET refs(i) == {SuperType(clauses[i], form, qualifier, SuperNames[i], args) :
                       form \in forms, qualifier \in {NULL, "pkg"}, args \in BOOLEAN}
    IN {sup \in [DOMAIN clauses -> UNION {refs(i) : i \in DOMAIN clauses}] :
           \A i \in DOMAIN clauses : sup[i] \in refs(i)}

\* Files declaring one class-like type Foo with supertypes. Java: a class
\* with or without a superclass and up to MaxInterfaces interfaces, or an
\* interface extending up to MaxInterfaces interfaces. Kotlin: a class
\* with up to MaxInterfaces + 1 delegation specifiers.
ClassTrees(lang) ==
    LET file(type, sup) ==
            [type |-> "source_file", name |-> NULL, ctype |-> NULL, sig |-> NULL,
             supers |-> <<>>, bomb |-> FALSE,
             children |-> << [type |-> type, name |-> "Foo", ctype |-> "class",
                              sig |-> NULL, supers |-> sup, children |-> <<>>,
                              bomb |-> FALSE] >>]
        clause(n, first, rest) == [i \in 1..n |-> IF i = 1 THEN first ELSE rest]
    IN IF lang = "java"
       THEN {file("class_declaration", sup) :
                sup \in UNION {SuperLists(clause(n, first, "super_interfaces"), {"type"}) :
                                  n \in 0..(MaxInterfaces + 1),
                                  first \in {"superclass", "super_interfaces"}}}
            \cup
            {file("interface_declaration", sup) :
                sup \in UNION {SuperLists(clause(n, "extends_interfaces",
                                                 "extends_interfaces"), {"type"}) :
                                  n \in 0..MaxInterfaces}}
       ELSE {file("class_declaration", sup) :
                sup \in UNION {SuperLists(clause(n, "delegation_specifiers",
                                                 "delegation_specifiers"),
                                          {"user_type", "constructor_invocation",
                                           "explicit_delegation"}) :
                                  n \in 0..(MaxInterfaces + 1)}}

InitExtract ==
    /\ Bench
    /\ db = EmptyDb
    /\ \E lang \in {"kotlin", "java"} :
          probe \in [call : {"visit_node"}, lang : {lang},
                     tree : SourceTrees(lang) \cup ClassTrees(lang),
                     done : {FALSE}, symbols : {0}, inheritance : {0}]

\* visit_node(tree.root_node) for a file with id 1.
ExtractCall ==
    /\ probe.call = "visit_node"
    /\ ~probe.done
    /\ LET r == VisitNode(db, 1, probe.tree, NoId, probe.lang)
       IN /\ WithinCaps(r.d)
          /\ db' = r.d
          /\ probe' = [probe EXCEPT !.done = TRUE, !.symbols = r.symbols,
                                    !.inheritance = r.inheritance]
    /\ BenchUnchanged

SpecExtract == InitExtract /\ [][ExtractCall]_vars

\* The stores handed to the lookups: the classes T and A of a file with a
\* files row and the class B of a file with or without one, and up to
\* MaxEdges inheritance rows from them to the names T, Outer.T, XT and A.
LookupNames == {"T", "Outer.T", "XT", "A"}
LookupQueries == {"T", "t", "A", "XT"}
LookupStores ==
    LET file(id, path) ==
            [id |-> id, path |-> path, name |-> FileName(path),
             extension |-> Suffix(path), module |-> detect_module(path),
             modified_at |-> 1, indexed_at |-> 1]
        class(id, name, file_id) ==
            [id |-> id, name |-> name, type |-> "class", file_id |-> file_id,
             signature |-> NULL, parent_symbol_id |-> NoId]
        edges == {[symbol_id |-> id, parent_name |-> name,
                   inheritance_type |-> IF id = 3 THEN "implements" ELSE "extends"] :
                     id \in 1..3, name \in LookupNames}
    IN {[EmptyDb EXCEPT !.files = files, !.nextFileId = 3,
                        !.symbols = {class(1, "T", 1), class(2, "A", 1),
                                     class(3, "B", 2)},
                        !.nextSymId = 4,
                        !.inheritance = inheritance] :
          files \in {{file(1, PathA), file(2, PathB)}, {file(1, PathA)}},
          inheritance \in {e \in SUBSET edges : Cardinality(e) <= MaxEdges}}

InitLookup ==
    /\ Bench
    /\ db \in LookupStores
    /\ probe \in [call : {"lookup"}, parent_name : LookupQueries, done : {FALSE},
                  implementations : {{}}, hierarchy : {[found |-> FALSE]}]

\* get_implementations(parent_name) and get_class_hierarchy(parent_name)
LookupCall ==
    /\ probe.call = "lookup"
    /\ ~probe.done
    /\ probe' = [probe EXCEPT
                    !.done = TRUE,
                    !.implementations = get_implementations(db, probe.parent_name),
                    !.hierarchy = get_class_hierarchy(db, probe.parent_name)]
    /\ db' = db
    /\ BenchUnchanged

SpecLookup == InitLookup /\ [][LookupCall]_vars

\* The dependency lookups over small module graphs: the modules lib,
\* lib.api and app, and at most MaxDepRows edges among them, each of kind
\* "api" or "implementation".
MaxDepRows == 2

DepNames == {<<"lib">>, <<"lib", "api">>, <<"app">>}

DepStores ==
    LET module(id, name) == [id |-> id, name |-> name, path |-> name, type |-> "api"]
        modules == {module(1, <<"lib">>), module(2, <<"lib", "api">>),
                    module(3, <<"app">>)}
        rows == [module_id : 1..3, dep_module_name : DepNames,
                 dep_type : {"api", "implementation"}]
        numbered(e) ==
            LET o == CHOOSE o \in Orders(e) : TRUE
            IN {[id |-> i, module_id |-> o[i].module_id,
                 dep_module_name |-> o[i].dep_module_name,
                 dep_type |-> o[i].dep_type] : i \in DOMAIN o}
    IN {[EmptyDb EXCEPT !.modules = modules, !.nextModuleId = 4,
                        !.module_deps = numbered(e),
                        !.nextDepId = Cardinality(e) + 1] :
          e \in {x \in SUBSET rows : Cardinality(x) <= MaxDepRows}}

InitDeps ==
    /\ Bench
    /\ db \in DepStores
    /\ probe \in [call : {"deps"}, a : DepNames, b : DepNames, done : {FALSE},
                  deps : {{}}, dependents : {{}}]

\* get_module_deps(b) and get_module_dependents(a)
DepsCall ==
    /\ probe.call = "deps"
    /\ ~probe.done
    /\ probe' = [probe EXCEPT !.done = TRUE,
                              !.deps = get_module_deps(db, probe.b),
                              !.dependents = get_module_dependents(db, probe.a)]
    /\ db' = db
    /\ BenchUnchanged

SpecDeps == InitDeps /\ [][DepsCall]_vars

\* ---------------------------------------------------------------- claims
\* The rows a file owns: its symbols, the inheritance edges of its symbols,
\* its references.
SymbolsOf(d, file_id) == {x \in d.symbols : x.file_id = file_id}
InheritanceOf(d, file_id) ==
    {i \in d.inheritance : i.symbol_id \in {x.id : x \in SymbolsOf(d, file_id)}}
RefsOf(d, file_id) == {r \in d.refs : r.file_id = file_id}

\* A step in which a command ran: neither the clock nor the tree moved.
CommandStep == now' = now /\ changes' = changes

\* The branch the file took in the symbol run the step performed.
Branch(rec, file_id) ==
    IF file_id \in DOMAIN rec.symbol_stats.log THEN rec.symbol_stats.log[file_id]
    ELSE "none"

\* C1: after a re-index of a file by a full symbol run or an incremental
\* run, no Symbol, InheritanceEdge or SymbolReference row that the file owned
\* before the run is left in the store.
C1_NoStaleRows ==
    [][(CommandStep /\ last'.op \in {"rebuild", "update"}) =>
        \A f \in db.files :
            Branch(last', f.id) \in {"indexed", "error"} =>
                /\ SymbolsOf(db, f.id) \cap db'.symbols = {}
                /\ InheritanceOf(db, f.id) \cap db'.inheritance = {}
                /\ RefsOf(db, f.id) \cap db'.refs = {}]_vars

\* C2: two consecutive full runs over an unchanged tree leave the same
\* numbers of file, module and symbol rows, and the file scan of the second
\* run reports added = 0, updated = 0 and removed = 0.
FullRun(rec) == rec.op = "rebuild" /\ rec.arg = "all"

RowCounts(d) ==
    <<Cardinality(d.files), Cardinality(d.modules), Cardinality(d.symbols)>>

C2_FullRunIdempotent ==
    [][(CommandStep /\ FullRun(last) /\ FullRun(last')) =>
        /\ RowCounts(db') = RowCounts(db)
        /\ last'.file_stats.added = 0
        /\ last'.file_stats.updated = 0
        /\ last'.file_stats.removed = 0]_vars

\* The state after the second of two full runs over a tree of two source
\* files in two modules: the scan found both files and touched neither row.
C2_SecondRunDone ==
    /\ FullRun(last)
    /\ last.file_stats.total = 2
    /\ last.file_stats.added = 0 /\ last.file_stats.updated = 0
    /\ Cardinality(db.modules) = 2
    /\ Cardinality(db.symbols) >= 2
    /\ now = 2

\* C3: after a full file scan no File row is left for a path that is not on
\* disk, however many rows the scan had to remove.
FileScanRun(rec) == rec.op = "rebuild" /\ rec.arg \in {"files", "all"}

Attempted(rec, file_id) == Branch(rec, file_id) \in {"indexed", "error"}

C4_FailedFileRetried ==
    [][(CommandStep /\ last.op = "update" /\ last'.op = "update") =>
        \A f \in db.files :
            Branch(last, f.id) = "error" => Attempted(last', f.id)]_vars

\* C5: after a run in which a file's read or parse failed, the file's symbol
\* rows are either the rows it had before the run or the rows of a complete
\* new parse.
RECURSIVE DeclaredIn(_, _)
DeclaredIn(node, lang) ==
    (IF SymbolTypeOf(node, lang) # NULL /\ node.name # NULL THEN {node.name} ELSE {})
    \cup UNION {DeclaredIn(node.children[i], lang) : i \in DOMAIN node.children}

\* The file's read failed (reported as processed) or its walk raised.
Failed(rec, f) ==
    \/ Branch(rec, f.id) = "error"
    \/ Branch(rec, f.id) = "indexed" /\ ~CanRead(f.path)

SymbolRun(rec) ==
    rec.op = "update" \/ (rec.op = "rebuild" /\ rec.arg \in {"symbols", "all"})

C5_ReplacementAtomic ==
    [][(CommandStep /\ SymbolRun(last')) =>
        \A f \in db.files :
            Failed(last', f) =>
                \/ SymbolsOf(db', f.id) = SymbolsOf(db, f.id)
                \/ /\ CanRead(f.path)
                   /\ SymbolsOf(db', f.id) \cap SymbolsOf(db, f.id) = {}
                   /\ {x.name : x \in SymbolsOf(db', f.id)} =
                        DeclaredIn(AST(disk[f.path].content, Language(f.extension)),
                                   Language(f.extension))]_vars

\* C6: after a full or incremental symbol run, the error tally is the number
\* of files whose read or parse failed, and a full run has processed every
\* source file.
C6_FailuresCounted ==
    SymbolRun(last) =>
        /\ last.symbol_stats.errors =
              Cardinality({f \in SourceFiles(db) : Failed(last, f)})
        /\ last.op = "rebuild" =>
              \A f \in SourceFiles(db) : Branch(last, f.id) # "none"

\* C7 as stated: an incremental run re-processes a file if and only if its
\* current mtime is greater than its stored indexed_at.
C7_ReprocessedIffAfterIndexedAt ==
    [][(CommandStep /\ last'.op = "update") =>
        \A f \in SourceFiles(db) :
            Attempted(last', f.id) <=>
                (disk[f.path].exists /\ disk[f.path].mtime > f.indexed_at)]_vars

\* C7 amended: an incremental run re-processes a file if and only if the
\* file is on disk and its indexed_at is unset or its current mtime is
\* greater than its stored modified_at.
C7_ReprocessedIffNewer ==
    [][(CommandStep /\ last'.op = "update") =>
        \A f \in SourceFiles(db) :
            Attempted(last', f.id) <=>
                /\ disk[f.path].exists
                /\ f.indexed_at = NoId \/ disk[f.path].mtime > f.modified_at]_vars

\* The state after an incremental run that re-processed one file and skipped
\* another.
C7_OneReprocessedOneSkipped ==
    /\ last.op = "update"
    /\ \E f, g \in SourceFiles(db) :
          Attempted(last, f.id) /\ Branch(last, g.id) = "skipped"

\* C8: an incremental run skips every file whose current mtime equals its
\* stored modified_at and whose indexed_at is set: the file is counted as
\* skipped, its File row and its derived rows are untouched.
UpToDate(d) ==
    {f \in SourceFiles(d) :
        disk[f.path].exists /\ disk[f.path].mtime = f.modified_at /\ f.indexed_at # NoId}

C8_UnchangedSkipped ==
    [][(CommandStep /\ last'.op = "update") =>
        /\ last'.symbol_stats.skipped >= Cardinality(UpToDate(db))
        /\ \A f \in UpToDate(db) :
              /\ Branch(last', f.id) = "skipped"
              /\ f \in db'.files
              /\ SymbolsOf(db', f.id) = SymbolsOf(db, f.id)
              /\ InheritanceOf(db', f.id) = InheritanceOf(db, f.id)
              /\ RefsOf(db', f.id) = RefsOf(db, f.id)]_vars

\* The state after an incremental run that skipped a file which has symbols,
\* inheritance edges and references.
C8_SkippedWithRows ==
    /\ last.op = "update"
    /\ \E f \in UpToDate(db) :
          /\ Branch(last, f.id) = "skipped"
          /\ SymbolsOf(db, f.id) # {}
          /\ InheritanceOf(db, f.id) # {}
          /\ RefsOf(db, f.id) # {}

\* C9: an incremental run leaves the File row and the derived rows of a file
\* that is no longer on disk as they were, adds and deletes no File row, and
\* a command that removes a File row is a full file scan.
FileKeys(d) == {<<f.id, f.path>> : f \in d.files}

C9_MissingFileUntouched ==
    [][CommandStep =>
        /\ last'.op = "update" =>
              /\ FileKeys(db') = FileKeys(db)
              /\ \A f \in db.files :
                    ~disk[f.path].exists =>
                        /\ f \in db'.files
                        /\ SymbolsOf(db', f.id) = SymbolsOf(db, f.id)
                        /\ InheritanceOf(db', f.id) = InheritanceOf(db, f.id)
                        /\ RefsOf(db', f.id) = RefsOf(db, f.id)
        /\ (FileKeys(db) \ FileKeys(db') # {}) => FileScanRun(last')]_vars

\* The state after an incremental run that passed over a file which is not
\* on disk and still has its symbols.
C9_MissingPassedOver ==
    /\ last.op = "update"
    /\ \E f \in db.files :
          /\ ~disk[f.path].exists
          /\ Branch(last, f.id) = "missing"
          /\ SymbolsOf(db, f.id) # {}

\* C10: right after a full symbol run or an incremental run the symbol
\* full-text table has exactly one entry per symbols row, with the row's name
\* and signature, and right after a full file scan the file full-text table
\* has exactly one entry per files row.
SymbolsFtsMatches(d) ==
    /\ Cardinality(d.symbols_fts) = Cardinality(d.symbols)
    /\ \A x \in d.symbols :
          \E e \in d.symbols_fts :
              /\ e.rowid = x.id
              /\ e.name = x.name
              /\ e.signature = (IF x.signature = NULL THEN "" ELSE x.signature)

FilesFtsMatches(d) ==
    /\ Cardinality(d.files_fts) = Cardinality(d.files)
    /\ \A f \in d.files :
          \E e \in d.files_fts :
              e.name = f.name /\ e.path = f.path /\ e.module = f.module

C10_FtsMatchesAfterRun ==
    /\ SymbolRun(last) => SymbolsFtsMatches(db)
    /\ FileScanRun(last) => FilesFtsMatches(db)

\* The state after an incremental run that replaced the symbols of a file
\* indexed before (the ids of its symbols are not the first ones handed out).
C10_RebuiltAfterUpdate ==
    /\ last.op = "update"
    /\ \E f \in db.files :
          /\ Branch(last, f.id) = "indexed"
          /\ SymbolsOf(db, f.id) # {}
          /\ \A x \in SymbolsOf(db, f.id) : x.id > Cardinality(db.symbols)
    /\ db.symbols_fts # {}

\* C11: after the reference scanner has run over any lines with any set of
\* known symbols, every reference it stored lies on a line that is neither a
\* comment (line comment, opening line of a block comment, line inside a
\* block comment) nor an import statement.
C11_NoReferenceFromCommentOrImport ==
    (probe.call = "index_references" /\ probe.done) =>
        \A r \in db.refs :
            /\ probe.lines[r.line].comment = "none"
            /\ probe.lines[r.line].head # "import "

\* The last command ran the module indexer.
ModuleRun(rec) == rec.op = "rebuild" /\ rec.arg \in {"all", "modules"}

\* The dependency edges the descriptors of a directory declare, in the
\* modules block or outside it.
DeclaredDeps(dir) ==
    UNION {Range(Descriptor(dir, name).block) \cup Range(Descriptor(dir, name).top) :
             name \in gradle[dir]}

\* The rows of one dependency edge of a module.
DepRows(d, module_id, dep_module_name, dep_type) ==
    {r \in d.module_deps : /\ r.module_id = module_id
                           /\ r.dep_module_name = dep_module_name
                           /\ r.dep_type = dep_type}

\* C12: after a module-index run no two module_deps rows share
\* (module_id, dep_module_name, dep_type), and every edge declared for a
\* registered module, be it declared in the modules block and again at top
\* level or in both descriptors of the directory, has exactly one row.
C12_OneRowPerEdge ==
    ModuleRun(last) =>
        /\ \A r \in db.module_deps :
              DepRows(db, r.module_id, r.dep_module_name, r.dep_type) = {r}
        /\ \A m \in db.modules : \A e \in DeclaredDeps(m.path) :
              Cardinality(DepRows(db, m.id, e.name, e.type)) = 1

\* The state after a module-index run over a directory that holds both
\* descriptors, each declaring the same edge in the block and at top level.
C12_EdgeDeclaredTwice ==
    /\ ModuleRun(last)
    /\ gradle[<<"app">>] = DescriptorNames
    /\ \E m \in db.modules :
          /\ m.path = <<"app">>
          /\ \E e \in Range(Descriptor(<<"app">>, "build.gradle").block)
                      \cap Range(Descriptor(<<"app">>, "build.gradle.kts").top) :
                DepRows(db, m.id, e.name, e.type) # {}

\* The modules and module_deps tables of d hold what the descriptors of the
\* tree give: one module per directory with a descriptor and a module name,
\* and for each module the edges its descriptors declare, nothing else.
DerivedFromDescriptors(d) ==
    /\ \A dir \in ModuleDirs :
          (gradle[dir] # {} /\ path_to_module_name(dir) # <<>>) =>
              Cardinality({m \in d.modules : m.name = path_to_module_name(dir)
                                             /\ m.path = dir}) = 1
    /\ \A m \in d.modules :
          /\ m.path \in ModuleDirs
          /\ gradle[m.path] # {}
          /\ m.name = path_to_module_name(m.path)
          /\ \A e \in DeclaredDeps(m.path) : DepRows(d, m.id, e.name, e.type) # {}
    /\ \A r \in d.module_deps :
          \E m \in d.modules :
              /\ r.module_id = m.id
              /\ [type |-> r.dep_type, name |-> r.dep_module_name]
                    \in DeclaredDeps(m.path)

\* C13: a module-index run leaves in modules and module_deps exactly the
\* modules and edges derived from the descriptors it found; no row of
\* either table from before the run is kept, and every module_deps row
\* carries the id of a modules row of this run.
C13_ModulesReplaced ==
    [][(ModuleRun(last') /\ changes' = changes) =>
          /\ DerivedFromDescriptors(db')
          /\ db'.modules \cap db.modules = {}
          /\ db'.module_deps \cap db.module_deps = {}]_vars

\* The state after a module-index run that followed an earlier one and the
\* removal of a module's descriptor: ids were handed out to rows that are
\* gone.
C13_SecondRunAfterRemoval ==
    /\ ModuleRun(last)
    /\ changes > 0
    /\ \E dir \in ModuleDirs : gradle[dir] = {}
    /\ db.modules # {}
    /\ db.nextModuleId > Cardinality(db.modules) + 1
    /\ db.nextDepId > Cardinality(db.module_deps) + 1

\* C14: whatever sequence of single-file upserts, full file scans, symbol
\* runs and incremental runs is made, no two files rows share a path, a
\* path that has a row before a step and after it keeps the row's id, and
\* a single-file upsert leaves the symbols, inheritance edges and
\* references as they were, attached to that id.
C14_PathKeepsItsRow ==
    [][/\ \A f \in db'.files, g \in db'.files : f.path = g.path => f = g
       /\ \A f \in db.files, g \in db'.files : f.path = g.path => f.id = g.id
       /\ last'.op = "scan_file" =>
             /\ db'.symbols = db.symbols
             /\ db'.inheritance = db.inheritance
             /\ db'.refs = db.refs
             /\ {f.id : f \in db.files} \subseteq {f.id : f \in db'.files}]_vars

\* The state after a single-file upsert of a path whose row owned symbols
\* already and whose file had changed since: the row, still the first one
\* handed out, carries the new mtime.
C14_UpsertOfIndexedPath ==
    /\ last.op = "scan_file"
    /\ \E f \in db.files :
          /\ f.path = PathA
          /\ f.id = 1
          /\ f.modified_at = disk[PathA].mtime
          /\ f.modified_at > 1
          /\ SymbolsOf(db, f.id) # {}

\* C15: a rebuild scoped to one index type writes only that type's tables:
\* "files" leaves modules, module_deps, symbols, inheritance and
\* symbol_references as they were, "modules" leaves files, symbols,
\* inheritance and symbol_references, "symbols" leaves files, modules and
\* module_deps.
C15_ScopedRebuildFrame ==
    [][(last'.op = "rebuild" /\ changes' = changes) =>
          /\ last'.arg = "files" =>
                /\ db'.modules = db.modules
                /\ db'.module_deps = db.module_deps
                /\ db'.symbols = db.symbols
                /\ db'.inheritance = db.inheritance
                /\ db'.refs = db.refs
          /\ last'.arg = "modules" =>
                /\ db'.files = db.files
                /\ db'.symbols = db.symbols
                /\ db'.inheritance = db.inheritance
                /\ db'.refs = db.refs
          /\ last'.arg = "symbols" =>
                /\ db'.files = db.files
                /\ db'.modules = db.modules
                /\ db'.module_deps = db.module_deps]_vars

\* The state after a files-only rebuild that removed the row of a deleted
\* file while symbols, references, modules and edges were in the store.
C15_FilesRebuildOverFullStore ==
    /\ last.op = "rebuild"
    /\ last.arg = "files"
    /\ last.file_stats.removed > 0
    /\ db.symbols # {}
    /\ db.refs # {}
    /\ db.inheritance # {}
    /\ db.modules # {}
    /\ db.module_deps # {}

\* The operation indexed symbols: index_file or a full symbol run.
SymbolOp(rec) ==
    \/ rec.op = "index_file"
    \/ rec.op = "rebuild" /\ rec.arg \in {"all", "symbols"}

\* C16: when index_file or a full symbol run follows directly on index_file
\* or a full symbol run, the tree not having changed in between (the
\* content of every file is what it was), each file owns as many symbols
\* rows after the step as before it.
C16_ReindexKeepsSymbolCount ==
    [][(SymbolOp(last) /\ SymbolOp(last') /\ changes' = changes) =>
          \A f \in db.files :
              Cardinality(SymbolsOf(db', f.id)) = Cardinality(SymbolsOf(db, f.id))]_vars

\* The state after index_file re-indexed a file whose content never
\* changed: the file's symbols are not the first rows handed out.
C16_ReindexedSameContent ==
    /\ changes = 0
    /\ last.op = "index_file"
    /\ \E f \in db.files :
          /\ f.path = last.arg
          /\ Cardinality(SymbolsOf(db, f.id)) > 1
          /\ \A x \in SymbolsOf(db, f.id) : x.id > Cardinality(SymbolsOf(db, f.id))

\* The positions of the nodes of a tree in the order of the walk: a
\* position is the sequence of child indices that leads to the node.
RECURSIVE PreorderPaths(_, _)
RECURSIVE PreorderOfChildren(_, _, _)
PreorderPaths(node, path) == <<path>> \o PreorderOfChildren(node, path, 1)
PreorderOfChildren(node, path, i) ==
    IF i > Len(node.children) THEN <<>>
    ELSE PreorderPaths(node.children[i], Append(path, i))
            \o PreorderOfChildren(node, path, i + 1)

RECURSIVE NodeAt(_, _)
NodeAt(node, path) ==
    IF path = <<>> THEN node ELSE NodeAt(node.children[Head(path)], Tail(path))

\* The positions of the declarations stored as symbols, in walk order.
EmittedPaths(tree, lang) ==
    LET Emitted(p) == /\ SymbolTypeOf(NodeAt(tree, p), lang) # NULL
                      /\ NodeAt(tree, p).name # NULL
    IN SelectSeq(PreorderPaths(tree, <<>>), Emitted)

ProperPrefix(p, q) == Len(p) < Len(q) /\ SubSeq(q, 1, Len(p)) = p

\* The index of the nearest stored declaration that encloses the k-th one,
\* NoId when none does.
NearestEnclosing(ep, k) ==
    LET enclosing == {j \in DOMAIN ep : ProperPrefix(ep[j], ep[k])}
    IN IF enclosing = {} THEN NoId
       ELSE CHOOSE j \in enclosing : \A i \in enclosing : Len(ep[i]) <= Len(ep[j])

\* C17: after grammar-based extraction of a file, the symbols are the named
\* declarations of the tree, and each symbol's parent_symbol_id is the id
\* of the nearest enclosing declaration that was stored as a symbol, null
\* when there is none; so a method in a class body has the class as
\* parent, a top-level function has none, and the parents form a forest.
C17_ParentIsNearestEnclosing ==
    (probe.call = "visit_node" /\ probe.done) =>
        LET ep == EmittedPaths(probe.tree, probe.lang)
        IN /\ {x.id : x \in db.symbols} = DOMAIN ep
           /\ \A x \in db.symbols :
                 /\ x.name = NodeAt(probe.tree, ep[x.id]).name
                 /\ x.parent_symbol_id = NearestEnclosing(ep, x.id)
                 /\ x.parent_symbol_id < x.id
                 /\ Len(ep[x.id]) = 1 => x.parent_symbol_id = NoId

\* The state after the extraction of a class whose body, a node that is no
\* declaration, holds a method: the method's parent is the class, reached
\* through the body.
C17_MethodInClassBody ==
    /\ probe.call = "visit_node"
    /\ probe.done
    /\ \E c \in db.symbols, m \in db.symbols :
          /\ c.type = "class" /\ c.parent_symbol_id = NoId
          /\ m.type = "function" /\ m.parent_symbol_id = c.id
    /\ \E p \in Range(PreorderPaths(probe.tree, <<>>)) :
          /\ Len(p) = 2
          /\ NodeAt(probe.tree, p).type = "class_body"
          /\ NodeAt(probe.tree, p).children # <<>>

\* The class-like declaration of a file that declares one, and its edges.
DeclaredClass(tree) == tree.children[1]
EdgesOf(d, symbol_id) == {i \in d.inheritance : i.symbol_id = symbol_id}
Edge(symbol_id, parent_name, inheritance_type) ==
    [symbol_id |-> symbol_id, parent_name |-> parent_name,
     inheritance_type |-> inheritance_type]

\* C18: after grammar-based extraction of a Java class declared with an
\* extends clause naming one superclass and an implements clause naming two
\* interfaces, the class has exactly three inheritance edges: "extends" to
\* the superclass and "implements" to each interface; the edges of an
\* interface declaration from its extends-interfaces clause are "extends".
C18_ThreeEdges ==
    (probe.call = "visit_node" /\ probe.done /\ probe.lang = "java"
       /\ Len(probe.tree.children) = 1) =>
        LET c == DeclaredClass(probe.tree)
        IN /\ (/\ c.type = "class_declaration"
               /\ Len(c.supers) = 3
               /\ c.supers[1].clause = "superclass") =>
                 EdgesOf(db, 1) = {Edge(1, c.supers[1].name, "extends"),
                                   Edge(1, c.supers[2].name, "implements"),
                                   Edge(1, c.supers[3].name, "implements")}
           /\ c.type = "interface_declaration" =>
                 \A e \in EdgesOf(db, 1) : e.inheritance_type = "extends"

\* C19: after grammar-based extraction of a Kotlin class declared with one
\* supertype A after the ":", written plainly, with type arguments or as a
\* constructor call, the class has exactly one inheritance edge, of kind
\* "extends" and with parent name A; and no edge of a Kotlin class has
\* kind "implements".
C19_OneExtendsEdge ==
    (probe.call = "visit_node" /\ probe.done /\ probe.lang = "kotlin"
       /\ Len(probe.tree.children) = 1) =>
        LET c == DeclaredClass(probe.tree)
        IN /\ (/\ c.type = "class_declaration"
               /\ Len(c.supers) = 1
               /\ c.supers[1].form \in {"user_type", "constructor_invocation"}) =>
                 EdgesOf(db, 1) = {Edge(1, c.supers[1].name, "extends")}
           /\ \A e \in db.inheritance : e.inheritance_type = "extends"

\* The symbols of a set of result rows.
Returned(rows) == {r.symbol : r \in rows}

\* The symbols of the store with an inheritance row that satisfies a test
\* on its parent_name.
WithEdge(d, Test(_)) ==
    {x \in d.symbols :
        \E i \in d.inheritance : i.symbol_id = x.id /\ Test(i.parent_name)}

RebuildAllResult ==
    LET fi == FileIndexAll(EmptyDb, WalkOrder(scan_files))
        mi == ModuleIndexAll(fi.d, find_gradle_files)
        si == SymbolIndexAll(mi.d, ById(SourceFiles(mi.d)))
    IN set_meta(si.d, now)

\* C21: in a full run the file scan comes first, no reference is looked up
\* or stored and the known symbols are not loaded before the
\* symbol+inheritance pass has handled every source file, the full-text
\* rebuild follows the reference pass over every file, the last-run
\* timestamp is written after that, and the final commit makes it durable
\* last.
C21_StepsInOrder ==
    probe.call = "rebuild" =>
        LET all == {f.id : f \in SourceFiles(db)}
            PassOneOver == probe.visited = all /\ probe.pc # "files"
            PassTwoOver == PassOneOver /\ probe.scanned = all
        IN /\ probe.visited # {} => probe.pc \notin {"files", "modules", "select"}
           /\ (probe.scanned # {} \/ db.refs # {} \/ probe.known_symbols # {}) =>
                 PassOneOver
           /\ probe.pc \in {"second_pass", "meta", "commit", "done"} => PassOneOver
           /\ db.symbols_fts # {} => PassTwoOver
           /\ db.last_indexed # NoId =>
                 PassTwoOver /\ SymbolsFtsMatches(db) /\ FilesFtsMatches(db)
           /\ probe.committed.last_indexed # NoId =>
                 probe.pc = "done" /\ probe.committed = db
           /\ probe.pc = "done" =>
                 probe.committed = db /\ db = RebuildAllResult

\* The end of a full run over two source files in which the file handled
\* first refers to a class declared in the file handled second.
C21_ReferenceToLaterFile ==
    /\ probe.call = "rebuild"
    /\ probe.pc = "done"
    /\ \E r \in db.refs, x \in db.symbols :
          /\ r.symbol_name = x.name
          /\ r.file_id < x.file_id

\* The names of the class, interface, object and enum rows of a store.
ClassLikeNames(d) ==
    {x.name : x \in {y \in d.symbols :
                        y.type \in {"class", "interface", "object", "enum"}}}

\* The capitalised identifiers on the lines of the file at a path that the
\* reference scanner does not pass over.
ScannedNames(p) ==
    LET lines == Lines(disk[p].content, Language(Suffix(p)))
    IN {lines[k].idents[j].name :
          <<k, j>> \in {<<k, j>> \in (DOMAIN lines) \X (1..3) :
                          /\ ~SkippedLine(lines[k])
                          /\ j \in DOMAIN lines[k].idents}}

\* C22: the references a symbol run writes for a file are the file's
\* identifiers that name a class, interface, object or enum row of the
\* whole store as it was when the run loaded its known symbols: before the
\* first file in an incremental run, after the symbol pass in a full run.
\* A class-like symbol the run inserts later yields no reference row.
C22_KnownSymbolsFixed ==
    [][(CommandStep /\ last'.op \in {"rebuild", "update"}) =>
        LET snapshot == IF last'.op = "update" THEN ClassLikeNames(db)
                        ELSE ClassLikeNames(db')
            Scanned(f) == \/ Branch(last', f.id) = "indexed"
                          \/ last'.op = "rebuild" /\ Branch(last', f.id) = "error"
        IN /\ \A r \in db'.refs : r.id >= db.nextRefId => r.symbol_name \in snapshot
           /\ \A f \in db'.files :
                 Scanned(f) =>
                     {r.symbol_name : r \in RefsOf(db', f.id)}
                         = ScannedNames(f.path) \cap snapshot]_vars

\* The state after an incremental run re-indexed a file that refers to a
\* class declared in a file the run skipped, and to a class of its own
\* that the run inserted: there are references to the first and none to
\* the second.
C22_InsertedAfterSnapshot ==
    /\ last.op = "update"
    /\ \E f \in db.files, g \in db.files :
          /\ Branch(last, f.id) = "indexed"
          /\ Branch(last, g.id) = "skipped"
          /\ \E x \in SymbolsOf(db, g.id), r \in RefsOf(db, f.id) :
                r.symbol_name = x.name
          /\ \E x \in SymbolsOf(db, f.id) :
                /\ x.name \in ScannedNames(f.path)
                /\ x.name \in ClassLikeNames(db)
                /\ \A r \in db.refs : r.symbol_name # x.name

\* The name and type of the symbols the extractor stores for the file at a
\* path, as it is on disk.
SymbolsOfContent(p) ==
    {[name |-> x.name, type |-> x.type] :
        x \in IndexSourceFile(EmptyDb, 1, p, Suffix(p)).d.symbols}

\* C23: when the content and the mtime of an indexed source file have
\* changed on disk, the file's symbol rows after an incremental run are
\* those of the new content, whatever runs came between the change and the
\* incremental run.
C23_ChangePickedUp ==
    [][(CommandStep /\ last'.op = "update" /\ probe.call = "change") =>
        \A f \in get_file_by_path(db', probe.path) :
            {[name |-> x.name, type |-> x.type] : x \in SymbolsOf(db', f.id)}
                = SymbolsOfContent(probe.path)]_vars

\* C24: after a full run, every symbol row belongs to an existing file
\* row: the symbols of a file whose row the scan deleted are in neither
\* the symbols table (and so its count) nor the known-symbol set.
C24_NoOrphanSymbols ==
    FullRun(last) =>
        LET owned == UNION {SymbolsOf(db, f.id) : f \in db.files}
        IN /\ \A x \in db.symbols : x.file_id \in {f.id : f \in db.files}
           /\ Cardinality(db.symbols) = Cardinality(owned)
           /\ load_known_symbols(db) = load_known_symbols([db EXCEPT !.symbols = owned])

\* C25: every reference row an incremental run writes names a class,
\* interface, object or enum symbol that is in the store when the run
\* completes.
C25_ReferencesNameStoredSymbols ==
    [][(CommandStep /\ last'.op = "update") =>
        \A r \in db'.refs :
            r.id >= db.nextRefId => r.symbol_name \in ClassLikeNames(db')]_vars

\* C26: in a full file scan, a file whose stored modified_at equals its
\* mtime keeps its file row (indexed_at and module included) and the
\* symbol, inheritance and reference rows derived from it, and is counted
\* neither added nor updated; a file whose mtime differs from the stored
\* value, whether newer or older, keeps its id, gets the mtime stored and
\* is counted as updated.
C26_ScanTouchesChangedOnly ==
    [][(CommandStep /\ last'.op = "rebuild" /\ last'.arg = "files") =>
        LET rows == {f \in db.files : f.path \in scan_files}
            same == {f \in rows : f.modified_at = disk[f.path].mtime}
        IN /\ \A f \in same :
                 /\ f \in db'.files
                 /\ SymbolsOf(db', f.id) = SymbolsOf(db, f.id)
                 /\ InheritanceOf(db', f.id) = InheritanceOf(db, f.id)
                 /\ RefsOf(db', f.id) = RefsOf(db, f.id)
           /\ \A f \in rows \ same :
                 \E g \in db'.files :
                     /\ g.id = f.id
                     /\ g.path = f.path
                     /\ g.modified_at = disk[f.path].mtime
           /\ last'.file_stats.updated = Cardinality(rows \ same)
           /\ last'.file_stats.added =
                 Cardinality(scan_files \ {f.path : f \in db.files})]_vars

\* The state after a scan of two indexed files that left one untouched
\* and upserted the other, whose mtime had moved back from 2 to 1.
C26_OlderMtimeUpserted ==
    /\ last.op = "rebuild"
    /\ last.arg = "files"
    /\ last.file_stats.total = 2
    /\ last.file_stats.updated = 1
    /\ last.file_stats.added = 0
    /\ \E f \in db.files, g \in db.files :
          /\ f.modified_at = 1
          /\ f.indexed_at = 2
          /\ g.indexed_at = 1

\* self.kotlin_parser / self.java_parser is set for the language of an
\* extension.
ParserFor(extension) ==
    IF Language(extension) = "kotlin" THEN kotlin_parser ELSE java_parser

\* C27: when no grammar parser is available for a file's language, every
\* symbol stored for the file is a class, interface, object or enum
\* declaration or a function declared at zero indentation (a function
\* indented inside a class body is not stored), every symbol has a null
\* parent, and no inheritance edge is stored for the file.
C27_FallbackTopLevelOnly ==
    [][(CommandStep /\ last'.op \in {"rebuild", "update"}) =>
        \A f \in db'.files :
            (Branch(last', f.id) = "indexed" /\ ~ParserFor(f.extension)) =>
                LET lines == Lines(disk[f.path].content, Language(f.extension))
                    Declared(x) ==
                        \E k \in DOMAIN lines :
                            /\ lines[k].name = x.name
                            /\ \/ /\ x.type \in {"class", "interface", "object", "enum"}
                                  /\ lines[k].kind = x.type
                               \/ /\ x.type = "function"
                                  /\ lines[k].kind = "fun"
                                  /\ lines[k].indent = 0
                IN /\ \A x \in SymbolsOf(db', f.id) :
                         Declared(x) /\ x.parent_symbol_id = NoId
                   /\ InheritanceOf(db', f.id) = {}]_vars

\* What an extraction stored: name, type and signature of each symbol,
\* whether it has a parent, and the number of inheritance edges.
Extracted(d, file_id) ==
    [symbols |-> {[name |-> x.name, type |-> x.type, signature |-> x.signature,
                   nested |-> x.parent_symbol_id # NoId] : x \in SymbolsOf(d, file_id)},
     inheritance |-> Cardinality(InheritanceOf(d, file_id))]

\* C28: whatever the installation offers, the construction of the
\* extractor returns; a file of a language whose grammar is missing or
\* failed to initialise is then extracted by the regex fallback, and a
\* file of a language whose parser is available by the grammar-based walk.
C28_FallbackChosenAtConstruction ==
    [][/\ probe'.call = "construct" => ~probe'.raised
       /\ (CommandStep /\ last'.op = "rebuild" /\ last'.arg = "symbols") =>
             \A f \in db'.files :
                 (Branch(last', f.id) = "indexed" /\ CanRead(f.path)) =>
                     LET lang == Language(f.extension)
                         content == disk[f.path].content
                         grammar == IF lang = "kotlin" THEN probe.kotlin ELSE probe.java
                     IN Extracted(db', f.id) =
                          IF grammar = "ok"
                          THEN Extracted(IndexWithTreeSitter(EmptyDb, f.id, content, lang).d,
                                         f.id)
                          ELSE Extracted(IndexWithRegex(EmptyDb, f.id, content, lang).d,
                                         f.id)]_vars

\* C29: after a full run, the module stored on the row of a file that lies
\* under a directory registered as a module is the name of the module row
\* of the nearest such directory.
C29_FileModuleIsModuleName ==
    FullRun(last) =>
        \A f \in db.files :
            LET enclosing == {m \in db.modules : ProperPrefix(m.path, f.path)}
            IN enclosing # {} =>
                 \E m \in enclosing :
                     /\ \A n \in enclosing : Len(n.path) <= Len(m.path)
                     /\ f.module = m.name

\* C30: the dependent lookup for module name a returns module b with
\* kind k if and only if the dependency lookup for b returns a with kind
\* k.
C30_LookupsInverse ==
    (probe.call = "deps" /\ probe.done) =>
        \A k \in {"api", "implementation"} :
            [module_name |-> probe.b, dep_type |-> k] \in probe.dependents
                <=> [dep_module_name |-> probe.a, dep_type |-> k] \in probe.deps

============================================================================
